---- MODULE Spec2Model ----
(***************************************************************************)
(* Verification model of the blockchain watcher scripts:                   *)
(*   - pumpfun-token-mint-monitor/pumpfun-monitor.js (gRPC mint monitor)   *)
(*   - unnamed/part_001 (gRPC high-value SOL transfer monitor)             *)
(*   - unnamed/part_000 (WebSocket Pump.fun migration listener)            *)
(*   - hyperliquid-whale-tracker/README.md (whale tracker, two WebSocket   *)
(*     feeds and a Telegram notification queue)                            *)
(* The scripts are independent processes.  Each has its own group of       *)
(* variables and its own specification; Spec is their interleaving.        *)
(* Time is in milliseconds.  Timers fire no earlier than they are due.     *)
(***************************************************************************)
EXTENDS Integers, Sequences, FiniteSets, TLC

(***************************************************************************)
(* Bounds of the model                                                     *)
(***************************************************************************)
\* the clock advances in steps of TickMs up to MaxTime
TickMs == 500
MaxTime == 9000
\* number of Telegram messages enqueued in one behaviour
MaxMsgs == 3
\* slots for concurrently live processTelegramQueue invocations
MaxConsumers == 2
\* socket slots per WebSocket data source
MaxSockets == 2
\* instructions per transaction
MaxIx == 2
\* mints displayed in one behaviour
MaxMints == 3
\* log notifications received in one behaviour
MaxLogs == 2
\* feed messages handled by the whale tracker in one behaviour
MaxFeedMsgs == 2
\* stream messages handled by the transfer monitor in one behaviour
MaxTransferMsgs == 2
\* the clock of the runs of the tracker with its queue stops at AlertsMaxTime
AlertsMaxTime == 4500
\* the clock of the runs of the queue over unbounded time is followed up to
\* LiveMaxTime, and the sink answers 429 at most MaxRateLimits times
LiveMaxTime == 3500
MaxRateLimits == 1
\* bytes of the generated sample strings of the create payloads
MaxStringBytes == 2

(***************************************************************************)
(* State                                                                   *)
(***************************************************************************)
\* whale tracker: Telegram notification queue
VARIABLES
  now,                \* Date.now() of the whale tracker process
  telegramConfigured, \* CONFIG.TELEGRAM_BOT_TOKEN && CONFIG.TELEGRAM_CHAT_ID
  telegramQueue,      \* this.telegramQueue
  isSendingTelegram,  \* this.isSendingTelegram
  lastTelegramSent,   \* this.lastTelegramSent
  consumer,           \* the live invocations of processTelegramQueue
  nextMsg,            \* messages are numbered in the order they are enqueued
  sinkSends,          \* history: the messages handed to fetch(), in order
  sinkLastEnd,        \* history: when the latest fetch() settled (-1: none yet)
  sinkStart,          \* history: when the latest fetch() was started
  rateLimited,        \* history: the latest 429 outcome still awaiting its retry
  sinkResults         \* history: how each fetch() of sinkSends settled

notifyVars == <<now, telegramConfigured, telegramQueue, isSendingTelegram,
                lastTelegramSent, consumer, nextMsg, sinkSends, sinkLastEnd,
                sinkStart, rateLimited, sinkResults>>

\* migration listener: connection lifecycle
VARIABLES
  lStarted,       \* listener.start() has run
  lSock,          \* the listener's sockets, by slot
  lWs,            \* this.ws: the slot of the latest socket (0: null)
  lIsConnected,   \* this.isConnected
  lAttempts,      \* this.reconnectAttempts
  lTimers,        \* pending reconnect timers
  lExit,          \* "running", or the process.exit() that ended the process
  lFatalLogged,   \* "Max reconnection attempts reached. Exiting..." was logged
  lSubscribes,    \* logsSubscribe requests sent on the current socket
  lStopped,       \* history: stop() has been called
  lDelays         \* history: delays scheduled since the counter was last zero

listenerConnVars == <<lStarted, lSock, lWs, lIsConnected, lAttempts, lTimers,
                      lExit, lFatalLogged, lSubscribes, lStopped, lDelays>>

\* whale tracker: connection lifecycle of the two feeds
VARIABLES
  hyperevmConfigured, \* CONFIG.HYPEREVM_WSS is set and is no placeholder
  tStarted,       \* bot.start() has run
  tSock,          \* the tracker's sockets, by feed and slot
  tWs,            \* this.ws and this.wsHyperEVM: the slot of the latest socket
  tAttempts,      \* this.reconnectAttempts, one counter for both feeds
  tTimers,        \* pending reconnect timers
  tExit,          \* "running", or the process.exit() that ended the process
  tFatalLogged,   \* feeds with "Max reconnection attempts reached for ..." logged
  tStopped,       \* history: stop() has been called
  tDelays         \* history: delays scheduled since the counter was last zero

trackerConnVars == <<hyperevmConfigured, tStarted, tSock, tWs, tAttempts,
                     tTimers, tExit, tFatalLogged, tStopped, tDelays>>

\* mint monitor (pumpfun-monitor.js)
VARIABLES
  mPc,            \* where main() / monitorPumpfunMints() stands
  mTotalMints,    \* stats.totalMints
  mMsg,           \* the stream message handled last
  mShown,         \* the mints displayed for that message, in order
  mPingReply,     \* the id of the ping written in reply to it (NoReply: none)
  mHandlerError,  \* the data handler's catch logged an error for it
  mStreamLost     \* the established stream has emitted error, end or close

mintVars ==
  <<mPc, mTotalMints, mMsg, mShown, mPingReply, mHandlerError, mStreamLost>>

\* migration listener: logs, deferred fetches and records (unnamed/part_000)
VARIABLES
  subscriptionId,           \* this.subscriptionId (NoSubscription: null)
  totalLogsReceived,        \* this.totalLogsReceived
  pendingFetches,           \* fetchAndProcessTransaction calls in flight,
                            \* per signature
  migrations,               \* this.migrations
  raydiumMigrationCount,    \* this.raydiumMigrationCount
  pumpswapMigrationCount,   \* this.pumpswapMigrationCount
  lastLog,                  \* history: the log notification handled last
  lastFetch,                \* history: the fetch that completed last
  fetchesIssued             \* history: the signatures fetched, in issue order

migrationVars ==
  <<subscriptionId, totalLogsReceived, pendingFetches, migrations,
    raydiumMigrationCount, pumpswapMigrationCount, lastLog, lastFetch,
    fetchesIssued>>

\* whale tracker: trades, prices and order books
VARIABLES
  batchAlerts,      \* CONFIG.TELEGRAM_BATCH_ALERTS
  priceCache,       \* this.priceCache
  whaleAddresses,   \* this.whaleAddresses
  tradeCount,       \* this.tradeCount
  pendingAlerts,    \* this.pendingAlerts
  batchTimer,       \* this.batchTimer (Null: null)
  consoleAlerts,    \* history: the alerts written to the console
  feedCount,        \* history: the feed messages handled
  lastFeed,         \* history: the feed message handled last
  attributed        \* history: the trade values credited to each address,
                    \* in the order of arrival

tradeVars ==
  <<batchAlerts, priceCache, whaleAddresses, tradeCount, pendingAlerts,
    batchTimer, consoleAlerts, feedCount, lastFeed, attributed>>

\* transfer monitor (unnamed/part_001)
VARIABLES
  xPc,                \* where main() / monitorHighValueTransfers() stands
  totalTransfers,     \* stats.totalTransfers
  totalVolume,        \* stats.totalVolume
  largestTransfer,    \* stats.largestTransfer
  largestTransferTx,  \* stats.largestTransferTx (Null: null)
  xMsg,               \* the stream message handled last
  xShown,             \* the transfers displayed for that message, in order
  xPingReply,         \* the id of the ping written in reply to it
  xHandlerError,      \* the data handler's catch logged an error for it
  xHandled            \* history: the stream messages handled

transferVars ==
  <<xPc, totalTransfers, totalVolume, largestTransfer, largestTransferTx,
    xMsg, xShown, xPingReply, xHandlerError, xHandled>>

\* mint monitor: the decoding of one instruction (pumpfun-monitor.js 23-87)
VARIABLES
  dPc,            \* where the loop body stands for the instruction
  dInstruction,   \* the instruction of the loop body
  dIsCreate,      \* what isCreateInstruction returned for it
  dCalls,         \* the decodeString calls of parseCreateInstruction, in order
  dParsed,        \* what parseCreateInstruction returned
  dEvent          \* what the loop body displayed

decodeVars == <<dPc, dInstruction, dIsCreate, dCalls, dParsed, dEvent>>

vars ==
  <<notifyVars, listenerConnVars, trackerConnVars, mintVars, migrationVars,
    tradeVars, transferVars, decodeVars>>

\* what a step of one script leaves alone
NotNotify ==
  <<listenerConnVars, trackerConnVars, mintVars, migrationVars, tradeVars,
    transferVars, decodeVars>>
NotListener ==
  <<notifyVars, trackerConnVars, mintVars, migrationVars, tradeVars,
    transferVars, decodeVars>>
NotTracker ==
  <<notifyVars, listenerConnVars, mintVars, migrationVars, tradeVars,
    transferVars, decodeVars>>
NotMint ==
  <<notifyVars, listenerConnVars, trackerConnVars, migrationVars, tradeVars,
    transferVars, decodeVars>>
NotMigration ==
  <<notifyVars, listenerConnVars, trackerConnVars, mintVars, tradeVars,
    transferVars, decodeVars>>
\* a feed message of the whale tracker may enqueue notifications
NotTrackerFeed ==
  <<listenerConnVars, trackerConnVars, mintVars, migrationVars, transferVars,
    decodeVars>>
NotTransfer ==
  <<notifyVars, listenerConnVars, trackerConnVars, mintVars, migrationVars,
    tradeVars, decodeVars>>
NotDecode ==
  <<notifyVars, listenerConnVars, trackerConnVars, mintVars, migrationVars,
    tradeVars, transferVars>>

Min(a, b) == IF a < b THEN a ELSE b
Max(a, b) == IF a > b THEN a ELSE b

RECURSIVE Pow2(_)
\* Math.pow(2, n) for a natural n
Pow2(n) == IF n = 0 THEN 1 ELSE 2 * Pow2(n - 1)

(***************************************************************************)
(* Whale tracker: Telegram notification queue                              *)
(* hyperliquid-whale-tracker/README.md, sendTelegramMessage and            *)
(* processTelegramQueue                                                    *)
(***************************************************************************)
\* this.TELEGRAM_DELAY
TELEGRAM_DELAY == 1500
\* errorData.parameters?.retry_after || 5
DefaultRetryAfter == 5
\* the retry_after values the sink answers with (0: absent or zero), in seconds
RetryAfters == {0, 1, 2}
\* Date.now() at construction is far beyond TELEGRAM_DELAY; the least such value
StartTime == TELEGRAM_DELAY

NoMsg == 0
NoRetry == [msg |-> NoMsg, notBefore |-> 0]
ConsumerDone == [pc |-> "done", msg |-> NoMsg, wake |-> 0, status |-> "none"]
Consumers == 1..MaxConsumers

\* the delay of the timer that chains the next processTelegramQueue call
\* (variant: the next call is chained without a delay)
NextSendDelayNone == TELEGRAM_DELAY - TELEGRAM_DELAY
NextSendDelay == TELEGRAM_DELAY

\* where the rate-limited message is put back: unshift puts it at the front
\* (variant: push puts it at the back)
RequeueBack(q, m) == Append(q, m)
Requeue(q, m) == <<m>> \o q

\* response.status === 429 (variant: every error status is taken as one)
IsRateLimitAlways(status) == TRUE
IsRateLimit(status) == status = "429"

\* errorData.parameters?.retry_after || 5, in milliseconds
RetryAfterMs(r) == (IF r = 0 THEN DefaultRetryAfter ELSE r) * 1000

NotifyInit ==
  /\ now = StartTime
  /\ telegramConfigured \in BOOLEAN
  /\ telegramQueue = <<>>
  /\ isSendingTelegram = FALSE
  /\ lastTelegramSent = 0
  /\ consumer = [c \in Consumers |-> ConsumerDone]
  /\ nextMsg = 1
  /\ sinkSends = <<>>
  /\ sinkLastEnd = -1
  /\ sinkStart = -1
  /\ rateLimited = NoRetry
  /\ sinkResults = <<>>

\* the call of fetch() by invocation c for message m
StartFetch(c, m) ==
  /\ consumer' = [consumer EXCEPT ![c] =
                    [pc |-> "fetch", msg |-> m, wake |-> 0, status |-> "none"]]
  /\ sinkSends' = Append(sinkSends, m)
  /\ sinkStart' = now

\* processTelegramQueue() up to its first suspension, run by invocation c on
\* the queue q
processTelegramQueue(c, q) ==
  IF Len(q) = 0
  THEN /\ isSendingTelegram' = FALSE
       /\ telegramQueue' = q
       /\ consumer' = [consumer EXCEPT ![c] = ConsumerDone]
       /\ UNCHANGED <<sinkSends, sinkStart>>
  ELSE /\ isSendingTelegram' = TRUE
       /\ telegramQueue' = Tail(q)
       /\ LET timeSinceLastSend == now - lastTelegramSent
          IN IF timeSinceLastSend < TELEGRAM_DELAY
             THEN /\ consumer' = [consumer EXCEPT ![c] =
                        [pc |-> "throttle", msg |-> Head(q),
                         wake |-> now + (TELEGRAM_DELAY - timeSinceLastSend),
                         status |-> "none"]]
                  /\ UNCHANGED <<sinkSends, sinkStart>>
             ELSE StartFetch(c, Head(q))

\* sendTelegramMessage(message): enqueue, and start a consumer if none runs
\* (variant: a consumer is started for every message)
sendTelegramMessageAlwaysStarts ==
  /\ UNCHANGED NotNotify
  /\ nextMsg <= MaxMsgs
  /\ nextMsg' = nextMsg + 1
  /\ IF ~telegramConfigured
     THEN UNCHANGED <<telegramQueue, isSendingTelegram, consumer, sinkSends,
                      sinkStart>>
     ELSE \E c \in Consumers :
            /\ consumer[c].pc = "done"
            /\ \A d \in Consumers : d < c => consumer[d].pc # "done"
            /\ processTelegramQueue(c, Append(telegramQueue, nextMsg))
  /\ UNCHANGED <<now, telegramConfigured, lastTelegramSent, sinkLastEnd,
                 rateLimited, sinkResults>>
sendTelegramMessage ==
  /\ UNCHANGED NotNotify
  /\ nextMsg <= MaxMsgs
  /\ nextMsg' = nextMsg + 1
  /\ IF ~telegramConfigured
     THEN UNCHANGED <<telegramQueue, isSendingTelegram, consumer, sinkSends,
                      sinkStart>>
     ELSE LET q == Append(telegramQueue, nextMsg)
          IN IF ~isSendingTelegram
             THEN \E c \in Consumers :
                    /\ consumer[c].pc = "done"
                    /\ \A d \in Consumers : d < c => consumer[d].pc # "done"
                    /\ processTelegramQueue(c, q)
             ELSE /\ telegramQueue' = q
                  /\ UNCHANGED <<isSendingTelegram, consumer, sinkSends,
                                 sinkStart>>
  /\ UNCHANGED <<now, telegramConfigured, lastTelegramSent, sinkLastEnd,
                 rateLimited, sinkResults>>

\* the timer that chains the next call: setTimeout(..., this.TELEGRAM_DELAY)
ScheduleNext(c) ==
  consumer' = [consumer EXCEPT ![c] =
                 [pc |-> "scheduled", msg |-> NoMsg,
                  wake |-> now + NextSendDelay, status |-> "none"]]

\* a rejected fetch() that ends the invocation without chaining the next call
FetchThrowsEndsChain(c) ==
  /\ UNCHANGED NotNotify
  /\ consumer[c].pc = "fetch"
  /\ consumer' = [consumer EXCEPT ![c] = ConsumerDone]
  /\ sinkLastEnd' = now
  /\ rateLimited' = NoRetry
  /\ sinkResults' = Append(sinkResults, "throw")
  /\ UNCHANGED <<now, telegramConfigured, telegramQueue, isSendingTelegram,
                 lastTelegramSent, nextMsg, sinkSends, sinkStart>>

\* fetch() rejects (network error): the catch logs, lastTelegramSent is not set
FetchThrows(c) ==
  /\ UNCHANGED NotNotify
  /\ consumer[c].pc = "fetch"
  /\ ScheduleNext(c)
  /\ sinkLastEnd' = now
  /\ rateLimited' = NoRetry
  /\ sinkResults' = Append(sinkResults, "throw")
  /\ UNCHANGED <<now, telegramConfigured, telegramQueue, isSendingTelegram,
                 lastTelegramSent, nextMsg, sinkSends, sinkStart>>

\* fetch() resolves with response.ok
FetchOk(c) ==
  /\ UNCHANGED NotNotify
  /\ consumer[c].pc = "fetch"
  /\ lastTelegramSent' = now
  /\ ScheduleNext(c)
  /\ sinkLastEnd' = now
  /\ rateLimited' = NoRetry
  /\ sinkResults' = Append(sinkResults, "ok")
  /\ UNCHANGED <<now, telegramConfigured, telegramQueue, isSendingTelegram,
                 nextMsg, sinkSends, sinkStart>>

\* fetch() resolves with !response.ok: response.json() is awaited
FetchNotOk(c, status) ==
  /\ UNCHANGED NotNotify
  /\ consumer[c].pc = "fetch"
  /\ lastTelegramSent' = now
  /\ consumer' = [consumer EXCEPT ![c].pc = "json", ![c].status = status]
  /\ sinkLastEnd' = now
  /\ rateLimited' = NoRetry
  /\ sinkResults' = Append(sinkResults, status)
  /\ UNCHANGED <<now, telegramConfigured, telegramQueue, isSendingTelegram,
                 nextMsg, sinkSends, sinkStart>>

\* response.json() rejects (no JSON body): the catch logs
JsonThrows(c) ==
  /\ UNCHANGED NotNotify
  /\ consumer[c].pc = "json"
  /\ ScheduleNext(c)
  /\ UNCHANGED <<now, telegramConfigured, telegramQueue, isSendingTelegram,
                 lastTelegramSent, nextMsg, sinkSends, sinkLastEnd, sinkStart,
                 rateLimited, sinkResults>>

\* response.json() resolves; r is errorData.parameters?.retry_after (0: none)
JsonParsed(c, r) ==
  /\ UNCHANGED NotNotify
  /\ consumer[c].pc = "json"
  /\ IF IsRateLimit(consumer[c].status)
     THEN /\ consumer' = [consumer EXCEPT ![c].pc = "ratelimit",
                                          ![c].wake = now + RetryAfterMs(r)]
          /\ rateLimited' = [msg |-> consumer[c].msg,
                             notBefore |-> sinkLastEnd +
                               (IF r = 0 THEN DefaultRetryAfter ELSE r) * 1000]
     ELSE /\ ScheduleNext(c)
          /\ UNCHANGED rateLimited
  /\ UNCHANGED <<now, telegramConfigured, telegramQueue, isSendingTelegram,
                 lastTelegramSent, nextMsg, sinkSends, sinkLastEnd, sinkStart,
                 sinkResults>>

\* an awaited setTimeout of invocation c has elapsed and the invocation
\* resumes: after the throttle wait fetch() is called; after the retry_after
\* sleep the message is put back and the next call chained
AwaitedTimerResumes(c) ==
  /\ UNCHANGED NotNotify
  /\ consumer[c].pc \in {"throttle", "ratelimit"}
  /\ IF consumer[c].pc = "throttle"
     THEN /\ StartFetch(c, consumer[c].msg)
          /\ UNCHANGED telegramQueue
     ELSE /\ telegramQueue' = Requeue(telegramQueue, consumer[c].msg)
          /\ ScheduleNext(c)
          /\ UNCHANGED <<sinkSends, sinkStart>>
  /\ UNCHANGED <<now, telegramConfigured, isSendingTelegram, lastTelegramSent,
                 nextMsg, sinkLastEnd, rateLimited, sinkResults>>

\* an awaited setTimeout of invocation c is due
AwaitedTimerElapsed(c) ==
  /\ now >= consumer[c].wake
  /\ AwaitedTimerResumes(c)

\* the chained timer has elapsed: processTelegramQueue() runs again
ChainedCallRuns(c) ==
  /\ UNCHANGED NotNotify
  /\ consumer[c].pc = "scheduled"
  /\ processTelegramQueue(c, telegramQueue)
  /\ UNCHANGED <<now, telegramConfigured, lastTelegramSent, nextMsg,
                 sinkLastEnd, rateLimited, sinkResults>>

\* the chained timer fires
NextTimerFires(c) ==
  /\ now >= consumer[c].wake
  /\ ChainedCallRuns(c)

\* time passes in the whale tracker process
Tick ==
  /\ UNCHANGED NotNotify
  /\ now + TickMs <= MaxTime
  /\ now' = now + TickMs
  /\ UNCHANGED <<telegramConfigured, telegramQueue, isSendingTelegram,
                 lastTelegramSent, consumer, nextMsg, sinkSends, sinkLastEnd,
                 sinkStart, rateLimited, sinkResults>>

\* the clock and the steps of the live processTelegramQueue invocations
QueueConsumerNext ==
  \/ Tick
  \/ \E c \in Consumers :
       \/ FetchThrows(c)
       \/ FetchOk(c)
       \/ \E status \in {"429", "400"} : FetchNotOk(c, status)
       \/ JsonThrows(c)
       \/ \E r \in RetryAfters : JsonParsed(c, r)
       \/ AwaitedTimerElapsed(c)
       \/ NextTimerFires(c)

NotifyNext ==
  \/ sendTelegramMessage
  \/ QueueConsumerNext

\* The queue over unbounded time.  The clock is followed up to LiveMaxTime;
\* after that time still passes but is no longer counted, and a timer that
\* is not due at the last counted instant fires at some later one.  The
\* sink answers with a 429 at most MaxRateLimits times.
RateLimitsSoFar ==
  Cardinality({i \in 1..Len(sinkResults) : sinkResults[i] = "429"})
ClockStopped == now + TickMs > LiveMaxTime
LiveTick ==
  /\ ~ClockStopped
  /\ Tick
LiveRateLimited(c) ==
  /\ RateLimitsSoFar < MaxRateLimits
  /\ FetchNotOk(c, "429")
TimerFiresLater(c) ==
  /\ ClockStopped
  /\ now < consumer[c].wake
  /\ \/ AwaitedTimerResumes(c)
     \/ ChainedCallRuns(c)
QueueLiveNext ==
  \/ LiveTick
  \/ \E c \in Consumers :
       \/ FetchThrows(c)
       \/ FetchOk(c)
       \/ FetchNotOk(c, "400")
       \/ LiveRateLimited(c)
       \/ JsonThrows(c)
       \/ \E r \in {0, 1} : JsonParsed(c, r)
       \/ AwaitedTimerElapsed(c)
       \/ NextTimerFires(c)
       \/ TimerFiresLater(c)
NotifyLiveNext ==
  \/ sendTelegramMessage
  \/ QueueLiveNext

(***************************************************************************)
(* WebSocket connection managers                                           *)
(* A socket slot is "free" (no socket, or the socket has emitted close),   *)
(* "connecting", "open" or "closing" (an error was emitted or close() was  *)
(* called and the close event is still to come).                           *)
(***************************************************************************)
Slots == 1..MaxSockets
NoSocket == [s \in Slots |-> "free"]
HasFreeSlot(socks) == \E s \in Slots : socks[s] = "free"
FreeSlot(socks) ==
  CHOOSE s \in Slots : socks[s] = "free" /\ \A d \in Slots : d < s => socks[d] # "free"
Live(socks) == {s \in Slots : socks[s] \in {"connecting", "open"}}

\* Math.min(1000 * Math.pow(2, this.reconnectAttempts), 30000)
\* (variants: no cap; the attempt number before the increment)
BaseDelayMs == 1000
CapDelayMs == 30000
ReconnectDelayUncapped(n) == BaseDelayMs * Pow2(n)
ReconnectDelay(n) == Min(BaseDelayMs * Pow2(n), CapDelayMs)

\* ws.close(): a closed or closing socket is left as it is
WsClose(socks, w) ==
  IF w \in Slots /\ socks[w] \in {"connecting", "open"}
  THEN [socks EXCEPT ![w] = "closing"]
  ELSE socks

(***************************************************************************)
(* Migration listener: connection lifecycle (unnamed/part_000)             *)
(***************************************************************************)
\* this.maxReconnectAttempts = 10
ListenerMaxReconnectAttempts == 10

\* what the listener does to the process once the attempts are used up
\* (variant: it leaves the process running)
ListenerOnExhaustedStay == "running"
ListenerOnExhausted == "exit1"

ListenerConnInit ==
  /\ lStarted = FALSE
  /\ lSock = NoSocket
  /\ lWs = 0
  /\ lIsConnected = FALSE
  /\ lAttempts = 0
  /\ lTimers = <<>>
  /\ lExit = "running"
  /\ lFatalLogged = FALSE
  /\ lSubscribes = 0
  /\ lStopped = FALSE
  /\ lDelays = <<>>

\* connect(): this.ws = new WebSocket(WS_ENDPOINT)
ListenerConnect ==
  /\ HasFreeSlot(lSock)
  /\ lSock' = [lSock EXCEPT ![FreeSlot(lSock)] = "connecting"]
  /\ lWs' = FreeSlot(lSock)
  /\ lSubscribes' = 0

\* start(): connect() and the keep-alive report timer
ListenerStart ==
  /\ UNCHANGED NotListener
  /\ lExit = "running"
  /\ ~lStarted
  /\ lStarted' = TRUE
  /\ ListenerConnect
  /\ UNCHANGED <<lIsConnected, lAttempts, lTimers, lExit, lFatalLogged,
                 lStopped, lDelays>>

\* handleOpen(): the open event of socket s
ListenerHandleOpen(s) ==
  /\ UNCHANGED NotListener
  /\ lExit = "running"
  /\ lSock[s] = "connecting"
  /\ lSock' = [lSock EXCEPT ![s] = "open"]
  /\ lIsConnected' = TRUE
  /\ lAttempts' = 0
  /\ lDelays' = <<>>
  /\ lSubscribes' = lSubscribes + 1
  /\ UNCHANGED <<lStarted, lWs, lTimers, lExit, lFatalLogged, lStopped>>

\* an error handler that schedules a reconnect of its own, before the close
\* event does
ListenerHandleErrorReconnects(s) ==
  /\ UNCHANGED NotListener
  /\ lExit = "running"
  /\ lSock[s] \in {"connecting", "open"}
  /\ lSock' = [lSock EXCEPT ![s] = "closing"]
  /\ lTimers' = Append(lTimers, [attempt |-> lAttempts,
                                 delay |-> ReconnectDelay(lAttempts)])
  /\ UNCHANGED <<lStarted, lWs, lIsConnected, lAttempts, lExit,
                 lFatalLogged, lSubscribes, lStopped, lDelays>>

\* handleError(error): the error event of socket s is only logged; the socket
\* emits close next
ListenerHandleError(s) ==
  /\ UNCHANGED NotListener
  /\ lExit = "running"
  /\ lSock[s] \in {"connecting", "open"}
  /\ lSock' = [lSock EXCEPT ![s] = "closing"]
  /\ UNCHANGED <<lStarted, lWs, lIsConnected, lAttempts, lTimers, lExit,
                 lFatalLogged, lSubscribes, lStopped, lDelays>>

\* handleClose(): the close event of socket s
ListenerHandleClose(s) ==
  /\ UNCHANGED NotListener
  /\ lExit = "running"
  /\ lSock[s] \in {"open", "closing"}
  /\ lSock' = [lSock EXCEPT ![s] = "free"]
  /\ lIsConnected' = FALSE
  /\ IF lAttempts < ListenerMaxReconnectAttempts
     THEN /\ lAttempts' = lAttempts + 1
          /\ lTimers' = Append(lTimers, [attempt |-> lAttempts + 1,
                                         delay |-> ReconnectDelay(lAttempts + 1)])
          /\ lDelays' = Append(lDelays, ReconnectDelay(lAttempts + 1))
          /\ UNCHANGED <<lExit, lFatalLogged>>
     ELSE /\ lFatalLogged' = TRUE
          /\ lExit' = ListenerOnExhausted
          /\ UNCHANGED <<lAttempts, lTimers, lDelays>>
  /\ UNCHANGED <<lStarted, lWs, lSubscribes, lStopped>>

\* the reconnect timer i fires: connect()
ListenerReconnectTimer(i) ==
  /\ UNCHANGED NotListener
  /\ lExit = "running"
  /\ i \in 1..Len(lTimers)
  /\ lTimers' = [j \in 1..(Len(lTimers) - 1) |->
                   IF j < i THEN lTimers[j] ELSE lTimers[j + 1]]
  /\ ListenerConnect
  /\ UNCHANGED <<lStarted, lIsConnected, lAttempts, lExit, lFatalLogged,
                 lStopped, lDelays>>

\* stop(): if (this.ws) this.ws.close()
ListenerStop ==
  /\ UNCHANGED NotListener
  /\ lExit = "running"
  /\ lStarted
  /\ lStopped' = TRUE
  /\ lSock' = WsClose(lSock, lWs)
  /\ UNCHANGED <<lStarted, lWs, lIsConnected, lAttempts, lTimers, lExit,
                 lFatalLogged, lSubscribes, lDelays>>

\* SIGINT / SIGTERM: listener.stop(); process.exit(0).  The exit ends the
\* process, its sockets and its timers.
ListenerSignal ==
  /\ UNCHANGED NotListener
  /\ lExit = "running"
  /\ lStarted
  /\ lStopped' = TRUE
  /\ lExit' = "exit0"
  /\ lSock' = NoSocket
  /\ lTimers' = <<>>
  /\ UNCHANGED <<lStarted, lWs, lIsConnected, lAttempts, lFatalLogged,
                 lSubscribes, lDelays>>

ListenerConnNext ==
  \/ ListenerStart
  \/ \E s \in Slots : ListenerHandleOpen(s)
  \/ \E s \in Slots : ListenerHandleError(s)
  \/ \E s \in Slots : ListenerHandleClose(s)
  \/ \E i \in 1..Len(lTimers) : ListenerReconnectTimer(i)
  \/ ListenerStop
  \/ ListenerSignal


(***************************************************************************)
(* Whale tracker: connection lifecycle of the two feeds                    *)
(* hyperliquid-whale-tracker/README.md                                     *)
(***************************************************************************)
\* 'hyperliquid': this.ws, the Hyperliquid Info feed;
\* 'hyperevm': this.wsHyperEVM, the HyperEVM feed
Feeds == {"hyperliquid", "hyperevm"}

\* this.maxReconnectAttempts = 5
TrackerMaxReconnectAttempts == 5

TrackerConnInit ==
  /\ hyperevmConfigured \in BOOLEAN
  /\ tStarted = FALSE
  /\ tSock = [f \in Feeds |-> NoSocket]
  /\ tWs = [f \in Feeds |-> 0]
  /\ tAttempts = 0
  /\ tTimers = <<>>
  /\ tExit = "running"
  /\ tFatalLogged = {}
  /\ tStopped = FALSE
  /\ tDelays = <<>>

\* new WebSocket(...) for feed f, on the sockets socks and the pointers ws
TrackerOpenSocket(socks, ws, f) ==
  [sock |-> [socks EXCEPT ![f][FreeSlot(socks[f])] = "connecting"],
   ws |-> [ws EXCEPT ![f] = FreeSlot(socks[f])]]

\* connectHyperliquidInfo()
connectHyperliquidInfo(socks, ws) ==
  TrackerOpenSocket(socks, ws, "hyperliquid")

\* connectHyperEVM(): returns at once when the endpoint is not configured
connectHyperEVM(socks, ws) ==
  IF ~hyperevmConfigured
  THEN [sock |-> socks, ws |-> ws]
  ELSE TrackerOpenSocket(socks, ws, "hyperevm")

\* start(): connect the Info feed, and the HyperEVM feed if configured
TrackerStart ==
  /\ UNCHANGED NotTracker
  /\ tExit = "running"
  /\ ~tStarted
  /\ tStarted' = TRUE
  /\ LET a == connectHyperliquidInfo(tSock, tWs)
         b == IF hyperevmConfigured THEN connectHyperEVM(a.sock, a.ws) ELSE a
     IN /\ tSock' = b.sock
        /\ tWs' = b.ws
  /\ UNCHANGED <<hyperevmConfigured, tAttempts, tTimers, tExit, tFatalLogged,
                 tStopped, tDelays>>

\* whether the open handler of feed f resets this.reconnectAttempts: the
\* handler of this.wsHyperEVM does, the handler of this.ws does not
OpenResetsAttempts(f) == f = "hyperevm"

\* the open event of socket s of feed f
TrackerHandleOpen(f, s) ==
  /\ UNCHANGED NotTracker
  /\ tExit = "running"
  /\ tSock[f][s] = "connecting"
  /\ tSock' = [tSock EXCEPT ![f][s] = "open"]
  /\ IF OpenResetsAttempts(f)
     THEN tAttempts' = 0 /\ tDelays' = <<>>
     ELSE UNCHANGED <<tAttempts, tDelays>>
  /\ UNCHANGED <<hyperevmConfigured, tStarted, tWs, tTimers, tExit,
                 tFatalLogged, tStopped>>

\* the error event of socket s of feed f is only logged; close comes next
TrackerHandleError(f, s) ==
  /\ UNCHANGED NotTracker
  /\ tExit = "running"
  /\ tSock[f][s] \in {"connecting", "open"}
  /\ tSock' = [tSock EXCEPT ![f][s] = "closing"]
  /\ UNCHANGED <<hyperevmConfigured, tStarted, tWs, tAttempts, tTimers, tExit,
                 tFatalLogged, tStopped, tDelays>>

\* handleReconnect(connection), called by the close handler of either feed
handleReconnect(f) ==
  IF tAttempts < TrackerMaxReconnectAttempts
  THEN /\ tAttempts' = tAttempts + 1
       /\ tTimers' = Append(tTimers, [connection |-> f,
                                      attempt |-> tAttempts + 1,
                                      delay |-> ReconnectDelay(tAttempts + 1)])
       /\ tDelays' = Append(tDelays, ReconnectDelay(tAttempts + 1))
       /\ UNCHANGED tFatalLogged
  ELSE /\ tFatalLogged' = tFatalLogged \cup {f}
       /\ UNCHANGED <<tAttempts, tTimers, tDelays>>

\* the close event of socket s of feed f
TrackerHandleClose(f, s) ==
  /\ UNCHANGED NotTracker
  /\ tExit = "running"
  /\ tSock[f][s] \in {"open", "closing"}
  /\ tSock' = [tSock EXCEPT ![f][s] = "free"]
  /\ handleReconnect(f)
  /\ UNCHANGED <<hyperevmConfigured, tStarted, tWs, tExit, tStopped>>

\* the reconnect timer i fires: connectHyperEVM() or connectHyperliquidInfo()
TrackerReconnectTimer(i) ==
  /\ UNCHANGED NotTracker
  /\ tExit = "running"
  /\ i \in 1..Len(tTimers)
  /\ HasFreeSlot(tSock[tTimers[i].connection])
  /\ tTimers' = [j \in 1..(Len(tTimers) - 1) |->
                   IF j < i THEN tTimers[j] ELSE tTimers[j + 1]]
  /\ LET a == IF tTimers[i].connection = "hyperevm"
              THEN connectHyperEVM(tSock, tWs)
              ELSE connectHyperliquidInfo(tSock, tWs)
     IN /\ tSock' = a.sock
        /\ tWs' = a.ws
  /\ UNCHANGED <<hyperevmConfigured, tStarted, tAttempts, tExit, tFatalLogged,
                 tStopped, tDelays>>

\* stop(): close this.ws and this.wsHyperEVM if set
TrackerStopSockets ==
  [f \in Feeds |-> WsClose(tSock[f], tWs[f])]

\* bot.stop()
TrackerStop ==
  /\ UNCHANGED NotTracker
  /\ tExit = "running"
  /\ tStarted
  /\ tStopped' = TRUE
  /\ tSock' = TrackerStopSockets
  /\ UNCHANGED <<hyperevmConfigured, tStarted, tWs, tAttempts, tTimers, tExit,
                 tFatalLogged, tDelays>>

\* SIGINT: bot.stop(); process.exit(0).  The exit ends the process, its
\* sockets and its timers.
TrackerSignal ==
  /\ UNCHANGED NotTracker
  /\ tExit = "running"
  /\ tStarted
  /\ tStopped' = TRUE
  /\ tExit' = "exit0"
  /\ tSock' = [f \in Feeds |-> NoSocket]
  /\ tTimers' = <<>>
  /\ UNCHANGED <<hyperevmConfigured, tStarted, tWs, tAttempts, tFatalLogged,
                 tDelays>>

TrackerConnNext ==
  \/ TrackerStart
  \/ \E f \in Feeds, s \in Slots : TrackerHandleOpen(f, s)
  \/ \E f \in Feeds, s \in Slots : TrackerHandleError(f, s)
  \/ \E f \in Feeds, s \in Slots : TrackerHandleClose(f, s)
  \/ \E i \in 1..Len(tTimers) : TrackerReconnectTimer(i)
  \/ TrackerStop
  \/ TrackerSignal

(***************************************************************************)
(* Values shared by the Solana watchers                                    *)
(***************************************************************************)
\* JavaScript's undefined, where an address or a key is expected
Undefined == "undefined"
Throw == [tag |-> "throw"]
Null == [tag |-> "null"]

PUMPFUN_PROGRAM == "6EF8rrecthR5Dkzon8Nwu78hRvfCKubJ14M5uBEwF6P"
SYSTEM_PROGRAM == "11111111111111111111111111111111"
RAYDIUM_PROGRAM == "675kPX9MHTjS2zt1qfr1NYHuzeLXfQM9H24wFSUt1Mp8"

\* The 32-byte keys of a transaction are named; bs58.encode maps a key to its
\* address and throws on undefined.
RawKeys == {"keyPump", "keySystem", "keyRaydium", "keyA", "keyB", "keyC"}
Bs58Address(k) ==
  CASE k = "keyPump" -> PUMPFUN_PROGRAM
    [] k = "keySystem" -> SYSTEM_PROGRAM
    [] k = "keyRaydium" -> RAYDIUM_PROGRAM
    [] k = "keyA" -> "AddressA"
    [] k = "keyB" -> "AddressB"
    [] k = "keyC" -> "AddressC"
Bs58Encode(k) ==
  IF k = Undefined THEN Throw ELSE [tag |-> "ok", value |-> Bs58Address(k)]

\* array[i] for a 0-based index i: undefined beyond the end
At0(array, i) ==
  IF i \in 0..(Len(array) - 1) THEN array[i + 1] ELSE Undefined

\* buffer.slice(start, end): clamped to the buffer
BufSlice(buffer, start, end) ==
  SubSeq(buffer, start + 1, Min(end, Len(buffer)))

\* buffer.readUInt32LE(offset): throws a RangeError unless 4 bytes are there
readUInt32LE(buffer, offset) ==
  IF offset + 4 > Len(buffer)
  THEN Throw
  ELSE [tag |-> "ok",
        value |-> buffer[offset + 1] + 256 * buffer[offset + 2]
                  + 65536 * buffer[offset + 3] + 16777216 * buffer[offset + 4]]

\* buffer.toString("utf8") on bytes, as the code points of the string: a
\* well-formed sequence of 1 to 4 bytes is its code point, and every maximal
\* part of an ill-formed sequence becomes U+FFFD.  needed is the number of
\* continuation bytes still expected, cp the code point so far, and
\* lower..upper the range of the next continuation byte.
ReplacementChar == 65533
RECURSIVE Utf8Decode(_, _, _, _, _, _)
Utf8Decode(bytes, i, needed, cp, lower, upper) ==
  IF i > Len(bytes)
  THEN IF needed # 0 THEN <<ReplacementChar>> ELSE <<>>
  ELSE LET b == bytes[i]
       IN IF needed = 0
          THEN IF b < 128
               THEN <<b>> \o Utf8Decode(bytes, i + 1, 0, 0, 128, 191)
               ELSE IF b \in 194..223
               THEN Utf8Decode(bytes, i + 1, 1, b - 192, 128, 191)
               ELSE IF b \in 224..239
               THEN Utf8Decode(bytes, i + 1, 2, b - 224,
                               IF b = 224 THEN 160 ELSE 128,
                               IF b = 237 THEN 159 ELSE 191)
               ELSE IF b \in 240..244
               THEN Utf8Decode(bytes, i + 1, 3, b - 240,
                               IF b = 240 THEN 144 ELSE 128,
                               IF b = 244 THEN 143 ELSE 191)
               ELSE <<ReplacementChar>>
                      \o Utf8Decode(bytes, i + 1, 0, 0, 128, 191)
          ELSE IF b \notin lower..upper
          THEN <<ReplacementChar>> \o Utf8Decode(bytes, i, 0, 0, 128, 191)
          ELSE IF needed = 1
          THEN <<cp * 64 + (b % 64)>>
                 \o Utf8Decode(bytes, i + 1, 0, 0, 128, 191)
          ELSE Utf8Decode(bytes, i + 1, needed - 1, cp * 64 + (b % 64),
                          128, 191)

\* the per-byte reading of the bytes: every byte above 127 is U+FFFD
Utf8ToStringBytewise(bytes) ==
  [i \in 1..Len(bytes) |-> IF bytes[i] < 128 THEN bytes[i] ELSE ReplacementChar]

Utf8ToString(bytes) == Utf8Decode(bytes, 1, 0, 0, 128, 191)

\* Buffer.from(string, "utf8"): the bytes of the code points of a string
Utf8Bytes(c) ==
  IF c < 128 THEN <<c>>
  ELSE IF c < 2048 THEN <<192 + (c \div 64), 128 + (c % 64)>>
  ELSE IF c < 65536
  THEN <<224 + (c \div 4096), 128 + ((c \div 64) % 64), 128 + (c % 64)>>
  ELSE <<240 + (c \div 262144), 128 + ((c \div 4096) % 64),
         128 + ((c \div 64) % 64), 128 + (c % 64)>>
RECURSIVE StringToUtf8(_)
StringToUtf8(string) ==
  IF string = <<>> THEN <<>>
  ELSE Utf8Bytes(Head(string)) \o StringToUtf8(Tail(string))

\* the bytes from position i on are well-formed UTF-8: sequences of 1 to 4
\* bytes that are no overlong form, no surrogate and at most U+10FFFF
RECURSIVE ValidUtf8From(_, _)
ValidUtf8From(bytes, i) ==
  LET Continues(j, lower, upper) ==
        j <= Len(bytes) /\ bytes[j] \in lower..upper
      b == bytes[i]
  IN IF i > Len(bytes) THEN TRUE
     ELSE IF b < 128 THEN ValidUtf8From(bytes, i + 1)
     ELSE IF b \in 194..223
     THEN Continues(i + 1, 128, 191) /\ ValidUtf8From(bytes, i + 2)
     ELSE IF b \in 224..239
     THEN /\ Continues(i + 1, IF b = 224 THEN 160 ELSE 128,
                       IF b = 237 THEN 159 ELSE 191)
          /\ Continues(i + 2, 128, 191)
          /\ ValidUtf8From(bytes, i + 3)
     ELSE IF b \in 240..244
     THEN /\ Continues(i + 1, IF b = 240 THEN 144 ELSE 128,
                       IF b = 244 THEN 143 ELSE 191)
          /\ Continues(i + 2, 128, 191)
          /\ Continues(i + 3, 128, 191)
          /\ ValidUtf8From(bytes, i + 4)
     ELSE FALSE

\* buffer.writeUInt32LE(n): the 4 bytes of a length
UInt32LE(n) ==
  <<n % 256, (n \div 256) % 256, (n \div 65536) % 256, n \div 16777216>>

(***************************************************************************)
(* Mint monitor (pumpfun-token-mint-monitor/pumpfun-monitor.js)            *)
(***************************************************************************)
CREATE_DISCRIMINATOR == <<24, 30, 200, 40, 5, 28, 7, 119>>

\* decodeString(buffer, offset)
decodeString(buffer, offset) ==
  LET length == readUInt32LE(buffer, offset)
  IN IF length.tag = "throw"
     THEN Throw
     ELSE [tag |-> "ok",
           value |-> Utf8ToString(BufSlice(buffer, offset + 4,
                                           offset + 4 + length.value)),
           bytesRead |-> 4 + length.value]

\* a parse that reads the symbol first and the name second
parseCreateInstructionSymbolFirst(data) ==
  LET symbol == decodeString(data, 8)
  IN IF symbol.tag = "throw" THEN Null
     ELSE LET name == decodeString(data, 8 + symbol.bytesRead)
          IN IF name.tag = "throw" THEN Null
             ELSE LET uri == decodeString(data, 8 + symbol.bytesRead
                                                  + name.bytesRead)
                  IN IF uri.tag = "throw" THEN Null
                     ELSE [tag |-> "ok", name |-> name.value,
                           symbol |-> symbol.value, uri |-> uri.value]

\* parseCreateInstruction(data): null when a decodeString throws
parseCreateInstruction(data) ==
  LET name == decodeString(data, 8)
  IN IF name.tag = "throw" THEN Null
     ELSE LET symbol == decodeString(data, 8 + name.bytesRead)
          IN IF symbol.tag = "throw" THEN Null
             ELSE LET uri == decodeString(data, 8 + name.bytesRead
                                                  + symbol.bytesRead)
                  IN IF uri.tag = "throw" THEN Null
                     ELSE [tag |-> "ok", name |-> name.value,
                           symbol |-> symbol.value, uri |-> uri.value]

\* extractAccounts(transaction, instructionIndex): null when a listed index
\* has no key (Buffer.from(undefined) throws)
extractAccounts(message, instructionIndex) ==
  LET instruction == message.instructions[instructionIndex + 1]
      accountKeys == message.accountKeys
      accounts == [j \in 1..Len(instruction.accounts) |->
                     Bs58Encode(At0(accountKeys, instruction.accounts[j]))]
      Address(pos) == IF pos \in 0..(Len(accounts) - 1)
                      THEN accounts[pos + 1].value ELSE Undefined
  IN IF \E j \in 1..Len(accounts) : accounts[j].tag = "throw"
     THEN Null
     ELSE [tag |-> "ok", mint |-> Address(0), bondingCurve |-> Address(2),
           creator |-> Address(7)]

\* a discriminator match that compares only the bytes the payload has
isCreateInstructionPrefix(instruction, accountKeys) ==
  LET programId == Bs58Encode(At0(accountKeys, instruction.programIdIndex))
      head == BufSlice(instruction.data, 0, 8)
  IN IF programId.tag = "throw" THEN "throw"
     ELSE IF programId.value # PUMPFUN_PROGRAM THEN "false"
     ELSE IF head = SubSeq(CREATE_DISCRIMINATOR, 1, Len(head))
          THEN "true" ELSE "false"

\* isCreateInstruction(instruction, accountKeys): "throw" when the program
\* index has no key (bs58.encode(undefined) throws)
isCreateInstruction(instruction, accountKeys) ==
  LET programId == Bs58Encode(At0(accountKeys, instruction.programIdIndex))
  IN IF programId.tag = "throw" THEN "throw"
     ELSE IF programId.value # PUMPFUN_PROGRAM THEN "false"
     ELSE IF BufSlice(instruction.data, 0, 8) = CREATE_DISCRIMINATOR
          THEN "true" ELSE "false"

\* what the body of the instruction loop does for instruction i (0-based):
\* "throw", "skip", or the token it displays
MintInstruction(txMessage, i) ==
  LET instruction == txMessage.instructions[i + 1]
      isCreate == isCreateInstruction(instruction, txMessage.accountKeys)
  IN IF isCreate = "throw" THEN [tag |-> "throw"]
     ELSE IF isCreate = "false" THEN [tag |-> "skip"]
     ELSE LET tokenMetadata == parseCreateInstruction(instruction.data)
          IN IF tokenMetadata.tag = "null" THEN [tag |-> "skip"]
             ELSE LET accounts == extractAccounts(txMessage, i)
                  IN IF accounts.tag = "null" THEN [tag |-> "skip"]
                     ELSE [tag |-> "mint", index |-> i,
                           signature |-> txMessage.signature,
                           name |-> tokenMetadata.name,
                           symbol |-> tokenMetadata.symbol,
                           uri |-> tokenMetadata.uri,
                           mint |-> accounts.mint,
                           bondingCurve |-> accounts.bondingCurve,
                           creator |-> accounts.creator]

\* the instruction loop of the data handler from instruction i on: an
\* exception leaves the loop for the handler's catch
RECURSIVE MintLoop(_, _, _)
MintLoop(txMessage, i, shown) ==
  IF i >= Len(txMessage.instructions)
  THEN [shown |-> shown, threw |-> FALSE]
  ELSE LET r == MintInstruction(txMessage, i)
       IN IF r.tag = "throw" THEN [shown |-> shown, threw |-> TRUE]
          ELSE IF r.tag = "skip" THEN MintLoop(txMessage, i + 1, shown)
          ELSE MintLoop(txMessage, i + 1, Append(shown, r))

\* the bytes of a length-prefixed string shorter than 256 bytes
LenPrefixed(bytes) == <<Len(bytes), 0, 0, 0>> \o bytes

\* sample payloads: create("Foo", "FOO", "u"), the same cut inside the uri
\* length, another Pump.fun instruction, and a payload shorter than 8 bytes
CreateFoo ==
  CREATE_DISCRIMINATOR \o LenPrefixed(<<70, 111, 111>>)
    \o LenPrefixed(<<70, 79, 79>>) \o LenPrefixed(<<117>>)
CreateCut == SubSeq(CreateFoo, 1, Len(CreateFoo) - 3)
OtherPayload == <<102, 6, 61, 18, 1, 218, 235, 234, 1, 0, 0, 0>>
ShortPayload == <<24, 30, 200>>

\* the account keys of the sample transactions; index 1 is the Pump.fun program
MintAccountKeys == <<"keyA", "keyPump", "keyB", "keyC", "keySystem">>
\* the accounts of a create instruction: mint keyB, bonding curve keyC,
\* creator keyA
CreateAccounts == <<2, 0, 3, 4, 0, 0, 0, 0>>

\* sample instructions
MintInstructions ==
  { [programIdIndex |-> 1, data |-> CreateFoo, accounts |-> CreateAccounts],
    [programIdIndex |-> 1, data |-> CreateCut, accounts |-> CreateAccounts],
    [programIdIndex |-> 1, data |-> OtherPayload, accounts |-> CreateAccounts],
    [programIdIndex |-> 1, data |-> ShortPayload, accounts |-> CreateAccounts],
    [programIdIndex |-> 4, data |-> CreateFoo, accounts |-> CreateAccounts],
    [programIdIndex |-> 9, data |-> CreateFoo, accounts |-> CreateAccounts],
    [programIdIndex |-> 1, data |-> CreateFoo,
     accounts |-> <<2, 0, 3, 4, 0, 0, 0, 7>>],
    [programIdIndex |-> 1, data |-> CreateFoo, accounts |-> <<2, 0, 3>>] }

InstructionLists(ixs) ==
  UNION { [1..n -> ixs] : n \in 0..MaxIx }

\* the stream messages: the server's pong and ping, and transaction updates.
\* failed is whether the transaction's meta carries an error.
NoReply == "none"
MintMessages ==
  { [kind |-> k, pongId |-> 7, filter |-> FALSE, failed |-> FALSE,
     signature |-> "-", accountKeys |-> <<>>, instructions |-> <<>>]
      : k \in {"pong", "ping"} }
  \cup
  { [kind |-> "pong", pongId |-> 8, filter |-> FALSE, failed |-> FALSE,
     signature |-> "-", accountKeys |-> <<>>, instructions |-> <<>>] }
  \cup
  { [kind |-> "transaction", pongId |-> 7, filter |-> TRUE, failed |-> e,
     signature |-> "signature1", accountKeys |-> MintAccountKeys,
     instructions |-> l]
      : e \in BOOLEAN, l \in InstructionLists(MintInstructions) }
  \cup
  { [kind |-> "transaction", pongId |-> 7, filter |-> FALSE, failed |-> FALSE,
     signature |-> "signature1", accountKeys |-> MintAccountKeys,
     instructions |-> <<i>>]
      : i \in MintInstructions }

\* each message with what the instruction loop does for it
MintHandled ==
  { [message |-> m, loop |-> MintLoop(m, 0, <<>>)] : m \in MintMessages }

MintInit ==
  /\ mPc = "init"
  /\ mTotalMints = 0
  /\ mMsg = [kind |-> "none"]
  /\ mShown = <<>>
  /\ mPingReply = NoReply
  /\ mHandlerError = FALSE
  /\ mStreamLost = FALSE

\* main(): monitorPumpfunMints() is awaited
MintMain ==
  /\ UNCHANGED NotMint
  /\ mPc = "init"
  /\ mPc' = "subscribing"
  /\ UNCHANGED <<mTotalMints, mMsg, mShown, mPingReply, mHandlerError,
                 mStreamLost>>

\* new Client(...) throws or client.subscribe() rejects: the promise is
\* rejected and main() logs and sets the 5 s restart timer
MintSubscribeFails ==
  /\ UNCHANGED NotMint
  /\ mPc = "subscribing"
  /\ mPc' = "restartWait"
  /\ UNCHANGED <<mTotalMints, mMsg, mShown, mPingReply, mHandlerError,
                 mStreamLost>>

\* client.subscribe() resolves: the data handler is registered and the
\* subscription request written
MintSubscribed ==
  /\ UNCHANGED NotMint
  /\ mPc = "subscribing"
  /\ mPc' = "writing"
  /\ mStreamLost' = FALSE
  /\ UNCHANGED <<mTotalMints, mMsg, mShown, mPingReply, mHandlerError>>

\* the callback of stream.write(request, ...): with an error the promise is
\* rejected and main() sets the restart timer
MintWriteDone(err) ==
  /\ UNCHANGED NotMint
  /\ mPc = "writing"
  /\ mPc' = IF err THEN "restartWait" ELSE "streaming"
  /\ UNCHANGED <<mTotalMints, mMsg, mShown, mPingReply, mHandlerError,
                 mStreamLost>>

\* setTimeout(main, 5000) fires
MintRestartTimer ==
  /\ UNCHANGED NotMint
  /\ mPc = "restartWait"
  /\ mPc' = "subscribing"
  /\ UNCHANGED <<mTotalMints, mMsg, mShown, mPingReply, mHandlerError,
                 mStreamLost>>

\* what the missing stream handlers leave of the process: the stream's error
\* event has no listener, which ends the process with an uncaught exception;
\* its end and close events have none either, and nothing runs
MintOnStreamError == "crashed"
MintOnStreamEnd == "lost"

\* the established stream emits error
MintStreamError ==
  /\ UNCHANGED NotMint
  /\ mPc = "streaming"
  /\ mPc' = MintOnStreamError
  /\ mStreamLost' = TRUE
  /\ UNCHANGED <<mTotalMints, mMsg, mShown, mPingReply, mHandlerError>>

\* the established stream emits end / close
MintStreamEnd ==
  /\ UNCHANGED NotMint
  /\ mPc = "streaming"
  /\ mPc' = MintOnStreamEnd
  /\ mStreamLost' = TRUE
  /\ UNCHANGED <<mTotalMints, mMsg, mShown, mPingReply, mHandlerError>>

\* SIGINT: the totals are printed and process.exit(0)
MintSigint ==
  /\ UNCHANGED NotMint
  /\ mPc \notin {"init", "crashed", "exit0"}
  /\ mPc' = "exit0"
  /\ UNCHANGED <<mTotalMints, mMsg, mShown, mPingReply, mHandlerError,
                 mStreamLost>>

\* a handler that answers every pong with a ping of id 1
MintDataPingOne(message, loop) ==
  /\ UNCHANGED NotMint
  /\ mPc = "streaming"
  /\ mMsg' = message
  /\ IF message.kind = "pong"
     THEN /\ mPingReply' = 1
          /\ mShown' = <<>>
          /\ mHandlerError' = FALSE
          /\ UNCHANGED mTotalMints
     ELSE IF message.kind = "transaction" /\ message.filter
     THEN LET r == loop
          IN /\ mTotalMints + Len(r.shown) <= MaxMints
             /\ mTotalMints' = mTotalMints + Len(r.shown)
             /\ mShown' = r.shown
             /\ mHandlerError' = r.threw
             /\ mPingReply' = NoReply
     ELSE /\ mShown' = <<>>
          /\ mHandlerError' = FALSE
          /\ mPingReply' = NoReply
          /\ UNCHANGED mTotalMints
  /\ UNCHANGED <<mPc, mStreamLost>>

\* stream.on("data", ...): the handler for one message
MintData(message, loop) ==
  /\ UNCHANGED NotMint
  /\ mPc = "streaming"
  /\ mMsg' = message
  /\ IF message.kind = "pong"
     THEN /\ mPingReply' = message.pongId
          /\ mShown' = <<>>
          /\ mHandlerError' = FALSE
          /\ UNCHANGED mTotalMints
     ELSE IF message.kind = "transaction" /\ message.filter
     THEN LET r == loop
          IN /\ mTotalMints + Len(r.shown) <= MaxMints
             /\ mTotalMints' = mTotalMints + Len(r.shown)
             /\ mShown' = r.shown
             /\ mHandlerError' = r.threw
             /\ mPingReply' = NoReply
     ELSE /\ mShown' = <<>>
          /\ mHandlerError' = FALSE
          /\ mPingReply' = NoReply
          /\ UNCHANGED mTotalMints
  /\ UNCHANGED <<mPc, mStreamLost>>

MintNext ==
  \/ MintMain
  \/ MintSubscribeFails
  \/ MintSubscribed
  \/ \E err \in BOOLEAN : MintWriteDone(err)
  \/ MintRestartTimer
  \/ MintStreamError
  \/ MintStreamEnd
  \/ MintSigint
  \/ \E h \in MintHandled : MintData(h.message, h.loop)

(***************************************************************************)
(* Mint monitor: the decoding of one instruction, step by step             *)
(***************************************************************************)
\* the decodeString calls parseCreateInstruction makes on a payload, each
\* with its offset and what it returned; the first that throws is the last
decodeCalls(data) ==
  LET name == decodeString(data, 8)
      first == <<[offset |-> 8, result |-> name]>>
  IN IF name.tag = "throw" THEN first
     ELSE LET symbol == decodeString(data, 8 + name.bytesRead)
              second == Append(first, [offset |-> 8 + name.bytesRead,
                                       result |-> symbol])
          IN IF symbol.tag = "throw" THEN second
             ELSE Append(second,
                         [offset |-> 8 + name.bytesRead + symbol.bytesRead,
                          result |-> decodeString(data, 8 + name.bytesRead
                                                        + symbol.bytesRead)])

\* the bytes of a create payload with the three strings given as bytes
CreatePayload(name, symbol, uri) ==
  CREATE_DISCRIMINATOR \o UInt32LE(Len(name)) \o name
    \o UInt32LE(Len(symbol)) \o symbol \o UInt32LE(Len(uri)) \o uri

\* sample strings as bytes: "Foo", "FOO", "ipfs://x", the 3 bytes of U+20AC,
\* the 4 bytes of U+1F600, and every string of up to MaxStringBytes bytes
\* of "F" and the two bytes of U+00E9 (well formed only in that order)
BytesFoo == <<70, 111, 111>>
BytesFOO == <<70, 79, 79>>
BytesIpfsX == <<105, 112, 102, 115, 58, 47, 47, 120>>
DecodeAlphabet == {70, 195, 169}
DecodeStrings ==
  {BytesFoo, BytesFOO, BytesIpfsX, <<226, 130, 172>>, <<240, 159, 152, 128>>}
    \cup UNION { [1..n -> DecodeAlphabet] : n \in 0..MaxStringBytes }

\* create("Foo", "FOO", "ipfs://x")
CreateIpfs == CreatePayload(BytesFoo, BytesFOO, BytesIpfsX)

\* sample payloads: create payloads of the sample strings, every prefix of
\* create("Foo", "FOO", "ipfs://x"), that payload with one byte of the
\* discriminator changed, and another Pump.fun instruction
DecodePayloads ==
  { CreatePayload(name, symbol, BytesIpfsX) :
      name \in DecodeStrings, symbol \in DecodeStrings }
  \cup { SubSeq(CreateIpfs, 1, n) : n \in 0..Len(CreateIpfs) }
  \cup { [CreateIpfs EXCEPT ![k] = (@ + 1) % 256] : k \in 1..8 }
  \cup { OtherPayload }

\* the sample instructions: the sample payloads sent to the Pump.fun program
\* with the accounts of a create, and the samples of the stream
DecodeInstructions ==
  { [programIdIndex |-> 1, data |-> d, accounts |-> CreateAccounts] :
      d \in DecodePayloads }
  \cup MintInstructions

\* the transaction update the instruction arrives in
DecodeTx(instruction) ==
  [kind |-> "transaction", pongId |-> 7, filter |-> TRUE, failed |-> FALSE,
   signature |-> "signature1", accountKeys |-> MintAccountKeys,
   instructions |-> <<instruction>>]

DecodeInit ==
  /\ dPc = "idle"
  /\ dInstruction = [programIdIndex |-> 0, data |-> <<>>, accounts |-> <<>>]
  /\ dIsCreate = "none"
  /\ dCalls = <<>>
  /\ dParsed = Null
  /\ dEvent = [tag |-> "none"]

\* the loop body is entered with an instruction of the update
DecodeInput ==
  /\ dPc = "input"
  /\ dInstruction \in DecodeInstructions
  /\ dIsCreate = "none"
  /\ dCalls = <<>>
  /\ dParsed = Null
  /\ dEvent = [tag |-> "none"]

\* if (!isCreateInstruction(instruction, accountKeys)) continue;
DecodeIsCreate ==
  /\ UNCHANGED NotDecode
  /\ dPc = "input"
  /\ dIsCreate' = isCreateInstruction(dInstruction, MintAccountKeys)
  /\ dPc' = IF dIsCreate' = "true" THEN "matched"
            ELSE IF dIsCreate' = "throw" THEN "threw" ELSE "skipped"
  /\ UNCHANGED <<dInstruction, dCalls, dParsed, dEvent>>

\* const tokenMetadata = parseCreateInstruction(instruction.data);
\* if (!tokenMetadata) continue;
DecodeParse ==
  /\ UNCHANGED NotDecode
  /\ dPc = "matched"
  /\ dCalls' = decodeCalls(dInstruction.data)
  /\ dParsed' = parseCreateInstruction(dInstruction.data)
  /\ dPc' = IF dParsed'.tag = "null" THEN "skipped" ELSE "parsed"
  /\ UNCHANGED <<dInstruction, dIsCreate, dEvent>>

\* const accounts = extractAccounts(...); if (!accounts) continue;
\* stats.totalMints++; displayTokenMint({...})
DecodeDisplay ==
  /\ UNCHANGED NotDecode
  /\ dPc = "parsed"
  /\ dEvent' = MintInstruction(DecodeTx(dInstruction), 0)
  /\ dPc' = IF dEvent'.tag = "mint" THEN "displayed" ELSE "skipped"
  /\ UNCHANGED <<dInstruction, dIsCreate, dCalls, dParsed>>

DecodeNext ==
  \/ DecodeIsCreate
  \/ DecodeParse
  \/ DecodeDisplay

(***************************************************************************)
(* Migration listener: logs, deferred fetches, records (unnamed/part_000)  *)
(***************************************************************************)
NoSubscription == "null"
UnknownAddress == "Unknown"

\* line.includes(phrase)
Includes(line, phrase) ==
  \E i \in 1..(Len(line) - Len(phrase) + 1) :
    SubSeq(line, i, i + Len(phrase) - 1) = phrase

\* variant: only the first phrase is looked for
hasMigrationFirstPhrase(logs) ==
  \E i \in 1..Len(logs) : Includes(logs[i], "Instruction: Migrate")

\* the test of processLog on value.logs
hasMigration(logs) ==
  \E i \in 1..Len(logs) :
    \/ Includes(logs[i], "Instruction: Migrate")
    \/ Includes(logs[i], "migrate")
    \/ Includes(logs[i], "initialize2")

\* a loop body that gives up on a Raydium instruction with fewer than 7
\* accounts instead of passing over it
MigrationInstructionGivesUp(tx, signature, instruction) ==
  LET accountKeys == tx.accountKeys
      programId == At0(accountKeys, instruction.programIdIndex)
      accounts == instruction.accounts
      Key(pos) == At0(accountKeys, accounts[pos + 1])
  IN IF programId = RAYDIUM_PROGRAM
     THEN IF Len(accounts) < 7 \/ \E pos \in {1, 5, 6, 4} : Key(pos) = Undefined
          THEN [tag |-> "throw"]
          ELSE [tag |-> "return",
                data |-> [type |-> "raydium", signature |-> signature,
                          slot |-> tx.slot, blockTime |-> tx.blockTime,
                          poolAddress |-> Key(1), tokenAddress |-> Key(5),
                          quoteMint |-> Key(6), lpMint |-> Key(4)]]
     ELSE IF programId = PUMPFUN_PROGRAM
     THEN [tag |-> "return",
           data |-> [type |-> "pumpswap", signature |-> signature,
                     slot |-> tx.slot, blockTime |-> tx.blockTime,
                     tokenAddress |-> IF At0(accountKeys, 2) # Undefined
                                      THEN At0(accountKeys, 2)
                                      ELSE UnknownAddress,
                     bondingCurve |-> IF At0(accountKeys, 1) # Undefined
                                      THEN At0(accountKeys, 1)
                                      ELSE UnknownAddress,
                     destination |-> "PumpSwap"]]
     ELSE [tag |-> "continue"]

\* what the body of extractMigrationData's loop does for one instruction:
\* "continue", "throw" (undefined.toString()) or "return" with the record
MigrationInstruction(tx, signature, instruction) ==
  LET accountKeys == tx.accountKeys
      programId == At0(accountKeys, instruction.programIdIndex)
      accounts == instruction.accounts
      Key(pos) == At0(accountKeys, accounts[pos + 1])
  IN IF programId = RAYDIUM_PROGRAM
     THEN IF Len(accounts) < 7
          THEN [tag |-> "continue"]
          ELSE IF \E pos \in {1, 5, 6, 4} : Key(pos) = Undefined
          THEN [tag |-> "throw"]
          ELSE [tag |-> "return",
                data |-> [type |-> "raydium", signature |-> signature,
                          slot |-> tx.slot, blockTime |-> tx.blockTime,
                          poolAddress |-> Key(1), tokenAddress |-> Key(5),
                          quoteMint |-> Key(6), lpMint |-> Key(4)]]
     ELSE IF programId = PUMPFUN_PROGRAM
     THEN [tag |-> "return",
           data |-> [type |-> "pumpswap", signature |-> signature,
                     slot |-> tx.slot, blockTime |-> tx.blockTime,
                     tokenAddress |-> IF At0(accountKeys, 2) # Undefined
                                      THEN At0(accountKeys, 2)
                                      ELSE UnknownAddress,
                     bondingCurve |-> IF At0(accountKeys, 1) # Undefined
                                      THEN At0(accountKeys, 1)
                                      ELSE UnknownAddress,
                     destination |-> "PumpSwap"]]
     ELSE [tag |-> "continue"]

\* extractMigrationData(tx, signature) from instruction i (1-based) on: the
\* first record returned, null when the loop ends or an exception is caught
RECURSIVE extractMigrationData(_, _, _)
extractMigrationData(tx, signature, i) ==
  IF i > Len(tx.instructions)
  THEN Null
  ELSE LET r == MigrationInstruction(tx, signature, tx.instructions[i])
       IN IF r.tag = "return" THEN [tag |-> "ok", data |-> r.data]
          ELSE IF r.tag = "throw" THEN Null
          ELSE extractMigrationData(tx, signature, i + 1)

\* sample account-key lists (static keys) and instructions
RaydiumKeys ==
  <<"Payer", RAYDIUM_PROGRAM, "Pool", "LpMint", "Token", "Quote",
    PUMPFUN_PROGRAM, SYSTEM_PROGRAM>>
PumpKeys == <<"Payer", "BondingCurve", "Token", PUMPFUN_PROGRAM>>
ShortPumpKeys == <<"Payer", PUMPFUN_PROGRAM>>
RaydiumIx == [programIdIndex |-> 1, accounts |-> <<0, 2, 0, 0, 3, 4, 5>>]
RaydiumFewIx == [programIdIndex |-> 1, accounts |-> <<0, 2, 0>>]
RaydiumLookupIx == [programIdIndex |-> 1, accounts |-> <<0, 9, 0, 0, 3, 4, 5>>]
PumpIx == [programIdIndex |-> 6, accounts |-> <<0>>]
SystemIx == [programIdIndex |-> 7, accounts |-> <<0, 2>>]
NoProgramIx == [programIdIndex |-> 12, accounts |-> <<0>>]

\* the transaction getTransaction returns for each sample signature
Signatures ==
  {"sigRaydium", "sigPumpswap", "sigPumpswapShort", "sigRaydiumLookup",
   "sigRaydiumFew", "sigSystem", "sigNoProgram"}
ChainTx(signature) ==
  CASE signature = "sigRaydium" ->
         [accountKeys |-> RaydiumKeys, slot |-> 11, blockTime |-> 21,
          instructions |-> <<SystemIx, RaydiumIx>>]
    [] signature = "sigPumpswap" ->
         [accountKeys |-> PumpKeys, slot |-> 12, blockTime |-> 22,
          instructions |-> <<[programIdIndex |-> 3, accounts |-> <<0, 1, 2>>]>>]
    [] signature = "sigPumpswapShort" ->
         [accountKeys |-> ShortPumpKeys, slot |-> 13, blockTime |-> 23,
          instructions |-> <<[programIdIndex |-> 1, accounts |-> <<0, 4, 5>>]>>]
    [] signature = "sigRaydiumLookup" ->
         [accountKeys |-> RaydiumKeys, slot |-> 14, blockTime |-> 24,
          instructions |-> <<RaydiumLookupIx, PumpIx>>]
    [] signature = "sigRaydiumFew" ->
         [accountKeys |-> RaydiumKeys, slot |-> 15, blockTime |-> 25,
          instructions |-> <<RaydiumFewIx, PumpIx>>]
    [] signature = "sigSystem" ->
         [accountKeys |-> RaydiumKeys, slot |-> 16, blockTime |-> 26,
          instructions |-> <<SystemIx>>]
    [] signature = "sigNoProgram" ->
         [accountKeys |-> RaydiumKeys, slot |-> 17, blockTime |-> 27,
          instructions |-> <<NoProgramIx, RaydiumIx>>]

\* sample value.logs
LogSamples ==
  { <<"Program log: Instruction: Migrate">>,
    <<"Program log: Instruction: Buy", "Program log: initialize2: args">>,
    <<"Program log: Instruction: Buy">>,
    <<"Program log: premigrate check">>,
    <<"Program log: Migrated", "Program log: Initialize2">> }

\* the log notifications, each with whether its logs match: every sample of
\* logs, failed or not, for one signature, and a successful migration log for
\* each of the others
LogRecords ==
  { [signature |-> "sigRaydium", err |-> e, logs |-> l,
     matches |-> hasMigration(l)] : e \in BOOLEAN, l \in LogSamples }
  \cup
  { [signature |-> sig, err |-> FALSE,
     logs |-> <<"Program log: Instruction: Migrate">>,
     matches |-> hasMigration(<<"Program log: Instruction: Migrate">>)]
      : sig \in Signatures }

\* variant: the result of a fetch is dropped
ExtractedDropped == [sig \in Signatures |-> Null]

\* what each signature's fetched transaction is extracted to
Extracted ==
  [sig \in Signatures |-> extractMigrationData(ChainTx(sig), sig, 1)]

MigrationInit ==
  /\ subscriptionId = NoSubscription
  /\ totalLogsReceived = 0
  /\ pendingFetches = [sig \in Signatures |-> 0]
  /\ migrations = <<>>
  /\ raydiumMigrationCount = 0
  /\ pumpswapMigrationCount = 0
  /\ lastLog = [signature |-> "none"]
  /\ lastFetch = [signature |-> "none"]
  /\ fetchesIssued = <<>>

\* messages reach handleMessage while a socket is open
ListenerReceiving ==
  /\ lExit = "running"
  /\ \E s \in Slots : lSock[s] = "open"

\* handleMessage(data): the reply to logsSubscribe
ListenerSubscriptionConfirmed ==
  /\ UNCHANGED NotMigration
  /\ ListenerReceiving
  /\ subscriptionId = NoSubscription
  /\ subscriptionId' = "subscription1"
  /\ UNCHANGED <<totalLogsReceived, pendingFetches, migrations,
                 raydiumMigrationCount, pumpswapMigrationCount, lastLog,
                 lastFetch, fetchesIssued>>

\* handleMessage(data) -> processLog(result) up to the await inside
\* fetchAndProcessTransaction
ListenerProcessLog(record) ==
  /\ UNCHANGED NotMigration
  /\ ListenerReceiving
  /\ totalLogsReceived < MaxLogs
  /\ totalLogsReceived' = totalLogsReceived + 1
  /\ pendingFetches' =
       IF ~record.err /\ record.matches
       THEN [pendingFetches EXCEPT ![record.signature] = @ + 1]
       ELSE pendingFetches
  /\ fetchesIssued' =
       IF ~record.err /\ record.matches
       THEN Append(fetchesIssued, record.signature)
       ELSE fetchesIssued
  /\ lastLog' = record
  /\ UNCHANGED <<subscriptionId, migrations, raydiumMigrationCount,
                 pumpswapMigrationCount, lastFetch>>

\* a completion that records what the logs announced whatever the fetch
\* returned
ListenerFetchDoneRecordsAnyway(signature, outcome) ==
  /\ UNCHANGED NotMigration
  /\ lExit = "running"
  /\ pendingFetches[signature] > 0
  /\ pendingFetches' = [pendingFetches EXCEPT ![signature] = @ - 1]
  /\ LET migrationData == Extracted[signature]
     IN IF migrationData.tag = "ok"
        THEN /\ migrations' = Append(migrations, migrationData.data)
             /\ raydiumMigrationCount' =
                  IF migrationData.data.type = "raydium"
                  THEN raydiumMigrationCount + 1 ELSE raydiumMigrationCount
             /\ pumpswapMigrationCount' =
                  IF migrationData.data.type = "pumpswap"
                  THEN pumpswapMigrationCount + 1 ELSE pumpswapMigrationCount
        ELSE UNCHANGED <<migrations, raydiumMigrationCount,
                         pumpswapMigrationCount>>
  /\ lastFetch' = [signature |-> signature, outcome |-> outcome]
  /\ UNCHANGED <<subscriptionId, totalLogsReceived, lastLog, fetchesIssued>>

\* a completion that counts only the Raydium migrations it records
ListenerFetchDoneCountsRaydium(signature, outcome) ==
  /\ UNCHANGED NotMigration
  /\ lExit = "running"
  /\ pendingFetches[signature] > 0
  /\ pendingFetches' = [pendingFetches EXCEPT ![signature] = @ - 1]
  /\ LET migrationData == IF outcome = "transaction"
                          THEN Extracted[signature] ELSE Null
     IN IF migrationData.tag = "ok"
        THEN /\ migrations' = Append(migrations, migrationData.data)
             /\ raydiumMigrationCount' =
                  IF migrationData.data.type = "raydium"
                  THEN raydiumMigrationCount + 1 ELSE raydiumMigrationCount
             /\ UNCHANGED pumpswapMigrationCount
        ELSE UNCHANGED <<migrations, raydiumMigrationCount,
                         pumpswapMigrationCount>>
  /\ lastFetch' = [signature |-> signature, outcome |-> outcome]
  /\ UNCHANGED <<subscriptionId, totalLogsReceived, lastLog, fetchesIssued>>

\* fetchAndProcessTransaction(signature) after the 1 s wait: getTransaction
\* throws, returns null, or returns the transaction
ListenerFetchDone(signature, outcome) ==
  /\ UNCHANGED NotMigration
  /\ lExit = "running"
  /\ pendingFetches[signature] > 0
  /\ pendingFetches' = [pendingFetches EXCEPT ![signature] = @ - 1]
  /\ LET migrationData == IF outcome = "transaction"
                          THEN Extracted[signature] ELSE Null
     IN IF migrationData.tag = "ok"
        THEN /\ migrations' = Append(migrations, migrationData.data)
             /\ raydiumMigrationCount' =
                  IF migrationData.data.type = "raydium"
                  THEN raydiumMigrationCount + 1 ELSE raydiumMigrationCount
             /\ pumpswapMigrationCount' =
                  IF migrationData.data.type = "pumpswap"
                  THEN pumpswapMigrationCount + 1 ELSE pumpswapMigrationCount
        ELSE UNCHANGED <<migrations, raydiumMigrationCount,
                         pumpswapMigrationCount>>
  /\ lastFetch' = [signature |-> signature, outcome |-> outcome]
  /\ UNCHANGED <<subscriptionId, totalLogsReceived, lastLog, fetchesIssued>>

MigrationNext ==
  \/ ListenerSubscriptionConfirmed
  \/ \E record \in LogRecords : ListenerProcessLog(record)
  \/ \E signature \in Signatures,
        outcome \in {"transaction", "notFound", "throws"} :
       ListenerFetchDone(signature, outcome)

(***************************************************************************)
(* JavaScript numbers                                                      *)
(* A number is an IEEE-754 double: here +0 or m * 2^e with a significand m *)
(* of exactly MantissaBits bits.  Every operation rounds its exact result  *)
(* to the nearest number, ties to even.  Negative numbers, infinities, NaN *)
(* and subnormals do not occur in the values the watchers compute.         *)
(***************************************************************************)
\* the significand of a JavaScript number has MantissaBits bits
MantissaBits == 53
\* naturals beyond the machine word are kept in limbs of LimbBits bits, the
\* least significant limb first, without leading zero limbs
LimbBits == 15
LimbBase == Pow2(LimbBits)

\* limb i of a, zero beyond its ends
Limb(a, i) == IF i >= 1 /\ i <= Len(a) THEN a[i] ELSE 0

\* a without leading zero limbs
NatTrim(a) ==
  LET used == {i \in 1..Len(a) : a[i] # 0}
  IN IF used = {} THEN <<>>
     ELSE SubSeq(a, 1, CHOOSE i \in used : \A j \in used : j <= i)

RECURSIVE NatOfInt(_)
\* the limbs of a machine integer n
NatOfInt(n) ==
  IF n = 0 THEN <<>> ELSE <<n % LimbBase>> \o NatOfInt(n \div LimbBase)

RECURSIVE NatAddFrom(_, _, _, _, _)
\* the addition limb by limb from limb i on
NatAddFrom(a, b, i, carry, acc) ==
  IF i > Len(a) /\ i > Len(b)
  THEN IF carry = 0 THEN acc ELSE Append(acc, carry)
  ELSE LET t == Limb(a, i) + Limb(b, i) + carry
       IN NatAddFrom(a, b, i + 1, t \div LimbBase, Append(acc, t % LimbBase))

\* a + b
NatAdd(a, b) == NatAddFrom(a, b, 1, 0, <<>>)

RECURSIVE NatMulLimbFrom(_, _, _, _, _)
\* the multiplication by one limb from limb i on
NatMulLimbFrom(a, x, i, carry, acc) ==
  IF i > Len(a)
  THEN IF carry = 0 THEN acc ELSE Append(acc, carry)
  ELSE LET t == a[i] * x + carry
       IN NatMulLimbFrom(a, x, i + 1, t \div LimbBase,
                         Append(acc, t % LimbBase))

\* a * x for one limb x
NatMulLimb(a, x) == NatTrim(NatMulLimbFrom(a, x, 1, 0, <<>>))

\* a * LimbBase^k
NatShiftLimbs(a, k) == IF a = <<>> THEN a ELSE [i \in 1..k |-> 0] \o a

RECURSIVE NatMulFrom(_, _, _, _)
\* the multiplication from limb j of b on
NatMulFrom(a, b, j, acc) ==
  IF j > Len(b)
  THEN acc
  ELSE NatMulFrom(a, b, j + 1,
                  NatAdd(acc, NatShiftLimbs(NatMulLimb(a, b[j]), j - 1)))

\* a * b
NatMul(a, b) == NatMulFrom(a, b, 1, <<>>)

RECURSIVE BitLen(_)
\* the number of bits of a machine integer x
BitLen(x) == IF x = 0 THEN 0 ELSE 1 + BitLen(x \div 2)

\* the number of bits of a
NatBitLen(a) ==
  IF a = <<>> THEN 0 ELSE LimbBits * (Len(a) - 1) + BitLen(a[Len(a)])

\* bit i of a, bit 0 being the least significant
NatBit(a, i) ==
  (Limb(a, (i \div LimbBits) + 1) \div Pow2(i % LimbBits)) % 2

\* a \div 2^s
NatShiftRight(a, s) ==
  LET w == s \div LimbBits
      p == s % LimbBits
  IN NatTrim([i \in 1..(Len(a) - w) |->
               (a[i + w] \div Pow2(p))
               + (Limb(a, i + w + 1) % Pow2(p)) * Pow2(LimbBits - p)])

\* a * 2^s
NatShiftLeft(a, s) ==
  LET w == s \div LimbBits
      p == s % LimbBits
  IN NatTrim([i \in 1..(Len(a) + w + 1) |->
               (Limb(a, i - w) % Pow2(LimbBits - p)) * Pow2(p)
               + (Limb(a, i - w - 1) \div Pow2(LimbBits - p))])

\* a < b
NatLess(a, b) ==
  IF Len(a) # Len(b) THEN Len(a) < Len(b)
  ELSE LET diff == {i \in 1..Len(a) : a[i] # b[i]}
       IN /\ diff # {}
          /\ LET k == CHOOSE i \in diff : \A j \in diff : j <= i
             IN a[k] < b[k]

RECURSIVE DivBits(_, _, _, _, _)
\* long division, bit by bit, of the bits k..0 of a limb
DivBits(r, limb, k, d, q) ==
  IF k < 0
  THEN [q |-> q, r |-> r]
  ELSE LET t == 2 * r + ((limb \div Pow2(k)) % 2)
       IN IF t >= d
          THEN DivBits(t - d, limb, k - 1, d, 2 * q + 1)
          ELSE DivBits(t, limb, k - 1, d, 2 * q)

RECURSIVE DivLimbs(_, _, _, _, _)
\* long division from limb i down
DivLimbs(a, d, i, r, acc) ==
  IF i = 0
  THEN [q |-> NatTrim(acc), r |-> r]
  ELSE LET s == DivBits(r, a[i], LimbBits - 1, d, 0)
       IN DivLimbs(a, d, i - 1, s.r, <<s.q>> \o acc)

\* quotient and remainder of a by a divisor d below 2^30
NatDivSmall(a, d) == DivLimbs(a, d, Len(a), 0, <<>>)

\* +0
Zero == [m |-> <<>>, e |-> 0]

\* the nearest number to b * 2^e (plus a nonzero fraction below the last bit
\* of b if sticky), ties to even: the rounding of every arithmetic operation
RoundToDouble(b, sticky, e) ==
  LET L == NatBitLen(b)
      d == L - MantissaBits
  IN IF L = 0 THEN Zero
     ELSE IF d <= 0
     THEN [m |-> NatShiftLeft(b, 0 - d), e |-> e + d]
     ELSE LET keep == NatShiftRight(b, d)
              rest == sticky \/ \E i \in 0..(d - 2) : NatBit(b, i) = 1
              up == NatBit(b, d - 1) = 1 /\ (rest \/ NatBit(keep, 0) = 1)
              m == IF up THEN NatAdd(keep, <<1>>) ELSE keep
          IN IF NatBitLen(m) > MantissaBits
             THEN [m |-> NatShiftRight(m, 1), e |-> e + d + 1]
             ELSE [m |-> m, e |-> e + d]

\* a * b
DoubleMul(a, b) ==
  IF a = Zero \/ b = Zero THEN Zero
  ELSE RoundToDouble(NatMul(a.m, b.m), FALSE, a.e + b.e)

\* a + b
DoubleAdd(a, b) ==
  IF a = Zero THEN b
  ELSE IF b = Zero THEN a
  ELSE LET hi == IF a.e >= b.e THEN a ELSE b
           lo == IF a.e >= b.e THEN b ELSE a
           d == hi.e - lo.e
       IN IF d > MantissaBits + 2
          THEN hi
          ELSE RoundToDouble(NatAdd(NatShiftLeft(hi.m, d), lo.m), FALSE, lo.e)

\* a < b
DoubleLess(a, b) ==
  IF b = Zero THEN FALSE
  ELSE IF a = Zero THEN TRUE
  ELSE IF a.e # b.e THEN a.e < b.e
  ELSE NatLess(a.m, b.m)

\* a >= b (variant: a > b)
DoubleGreater(a, b) == DoubleLess(b, a)
DoubleGeq(a, b) == ~DoubleLess(a, b)

\* the number of a natural n
DoubleOfInt(n) == RoundToDouble(NatOfInt(n), FALSE, 0)

RECURSIVE Pow10(_)
\* 10^k
Pow10(k) == IF k = 0 THEN 1 ELSE 10 * Pow10(k - 1)

\* a / d for a natural d below 2^30
DoubleDivInt(a, d) ==
  IF a = Zero THEN Zero
  ELSE LET s == MantissaBits + 31
           qr == NatDivSmall(NatShiftLeft(a.m, s), d)
       IN RoundToDouble(qr.q, qr.r # 0, a.e - s)

\* the value of a decimal digit
DigitOf == ("0" :> 0) @@ ("1" :> 1) @@ ("2" :> 2) @@ ("3" :> 3) @@ ("4" :> 4)
           @@ ("5" :> 5) @@ ("6" :> 6) @@ ("7" :> 7) @@ ("8" :> 8) @@ ("9" :> 9)

RECURSIVE ParseFrom(_, _, _, _)
\* the digits of s from position i on: the integer they spell without the
\* point, and the number of digits after the point (-1: no point yet)
ParseFrom(s, i, n, k) ==
  IF i > Len(s) THEN [n |-> n, k |-> IF k < 0 THEN 0 ELSE k]
  ELSE LET c == SubSeq(s, i, i)
       IN IF c = "."
          THEN ParseFrom(s, i + 1, n, 0)
          ELSE ParseFrom(s, i + 1,
                         NatAdd(NatMulLimb(n, 10), NatOfInt(DigitOf[c])),
                         IF k < 0 THEN k ELSE k + 1)

\* parseFloat(s) of a plain decimal string
parseFloat(s) ==
  LET p == ParseFrom(s, 1, <<>>, -1)
  IN IF p.n = <<>> THEN Zero
     ELSE LET sh == MantissaBits + 31
              qr == NatDivSmall(NatShiftLeft(p.n, sh), Pow10(p.k))
          IN RoundToDouble(qr.q, qr.r # 0, 0 - sh)

RECURSIVE NatOfBytesFrom(_, _, _)
\* the bytes from byte i on added to acc
NatOfBytesFrom(bytes, i, acc) ==
  IF i > Len(bytes) THEN acc
  ELSE NatOfBytesFrom(bytes, i + 1,
         NatAdd(acc, NatShiftLeft(NatOfInt(bytes[i]), 8 * (i - 1))))

\* the natural spelled by bytes, the least significant byte first
NatOfBytesLE(bytes) == NatOfBytesFrom(bytes, 1, <<>>)

(***************************************************************************)
(* Whale tracker: trades, prices and order books                           *)
(* hyperliquid-whale-tracker/README.md, handleHyperliquidMessage and the   *)
(* analysis and notification methods it calls                              *)
(***************************************************************************)
\* CONFIG.WHALE_THRESHOLD_USD and CONFIG.WHALE_THRESHOLD_SIZE, the defaults
\* (variant of the size threshold: a lower one)
WHALE_THRESHOLD_USD == DoubleOfInt(100000)
WhaleThresholdSizeLower == DoubleOfInt(40)
WHALE_THRESHOLD_SIZE == DoubleOfInt(50)

\* sample trades of the trades channel: px and sz are decimal strings, user
\* is the wallet address if the feed gives one.  An ETH trade worth exactly
\* the USD threshold and one just below it, three BTC trades of one address,
\* a trade of exactly the size threshold and one just below it, and a BTC
\* trade without an address.
EthAtThreshold ==
  [coin |-> "ETH", side |-> "B", px |-> "2500", sz |-> "40", user |-> "0xaaaa"]
EthBelowThreshold ==
  [coin |-> "ETH", side |-> "A", px |-> "2499.99", sz |-> "40",
   user |-> "0xaaaa"]
Btc17 ==
  [coin |-> "BTC", side |-> "B", px |-> "64250.5", sz |-> "1.7",
   user |-> "0xaaaa"]
Btc19 ==
  [coin |-> "BTC", side |-> "A", px |-> "64250.5", sz |-> "1.9",
   user |-> "0xaaaa"]
Btc21 ==
  [coin |-> "BTC", side |-> "B", px |-> "64250.5", sz |-> "2.1",
   user |-> "0xaaaa"]
PepeAtSize ==
  [coin |-> "kPEPE", side |-> "B", px |-> "0.001", sz |-> "50",
   user |-> "0xbbbb"]
PepeBelowSize ==
  [coin |-> "kPEPE", side |-> "A", px |-> "0.001", sz |-> "49.9999",
   user |-> "0xbbbb"]
BtcAnonymous ==
  [coin |-> "BTC", side |-> "B", px |-> "64250.5", sz |-> "2.1",
   user |-> Undefined]
TradeSamples ==
  {EthAtThreshold, EthBelowThreshold, Btc17, Btc19, Btc21, PepeAtSize,
   PepeBelowSize, BtcAnonymous}

\* the data of the sample trades messages: one trade, or two trades of a coin
TradeLists ==
  { <<t>> : t \in TradeSamples }
  \cup { <<EthAtThreshold, EthBelowThreshold>>, <<Btc17, Btc19>> }

\* analyzeTrade, the numbers of a trade: price = parseFloat(px),
\* size = parseFloat(sz), value = price * size
TradeNumbers(trade) ==
  LET price == parseFloat(trade.px)
      size == parseFloat(trade.sz)
  IN [trade |-> trade, price |-> price, size |-> size,
      value |-> DoubleMul(price, size)]

\* trackWhaleAddress(address, value, coin) on the map whales
\* (variant: the profile of the address is always set anew)
trackWhaleAddressAnew(whales, address, value, coin) ==
  [a \in DOMAIN whales \cup {address} |->
     IF a = address
     THEN [address |-> address, totalVolume |-> value, tradeCount |-> 1,
           firstSeen |-> now, lastSeen |-> now, coins |-> {coin}]
     ELSE whales[a]]
trackWhaleAddress(whales, address, value, coin) ==
  IF address \in DOMAIN whales
  THEN [whales EXCEPT ![address] =
          [@ EXCEPT !.totalVolume = DoubleAdd(@, value),
                    !.tradeCount = @ + 1,
                    !.lastSeen = now,
                    !.coins = @ \cup {coin}]]
  ELSE [a \in DOMAIN whales \cup {address} |->
          IF a = address
          THEN [address |-> address, totalVolume |-> value, tradeCount |-> 1,
                firstSeen |-> now, lastSeen |-> now, coins |-> {coin}]
          ELSE whales[a]]

\* the values credited to address so far, with one more (history)
Credit(credited, address, value) ==
  [a \in DOMAIN credited \cup {address} |->
     IF a = address
     THEN (IF a \in DOMAIN credited THEN credited[a] ELSE <<>>) \o <<value>>
     ELSE credited[a]]

RECURSIVE VolumeInOrder(_, _, _, _)
\* the totalVolume trackWhaleAddress computes when the values arrive in the
\* given order: the first value sets it, each later one is added to it
VolumeInOrder(values, order, i, acc) ==
  IF i > Len(values) THEN acc
  ELSE VolumeInOrder(values, order, i + 1,
                     IF i = 1 THEN values[order[i]]
                     ELSE DoubleAdd(acc, values[order[i]]))

\* the orders in which n trades can arrive
ArrivalOrders(n) ==
  {f \in [1..n -> 1..n] : \A i, j \in 1..n : f[i] = f[j] => i = j}

\* notifyWhaleTrade(trade): the alert is written to the console and, if
\* Telegram is configured, handed to sendTelegramMessage; alerts collects the
\* alerts of one feed message
notifyWhaleTrade(alerts, t) ==
  Append(alerts, [kind |-> "trade", coin |-> t.trade.coin, n |-> 1,
                  orders |-> <<>>])

\* analyzeTrade(trade) on the state st of the handler
analyzeTrade(st, t) ==
  IF \/ DoubleGeq(t.value, WHALE_THRESHOLD_USD)
     \/ DoubleGeq(t.size, WHALE_THRESHOLD_SIZE)
  THEN LET user == t.trade.user
           tracked == user # Undefined /\ user # "Unknown"
       IN [st EXCEPT
             !.whales = IF tracked
                        THEN trackWhaleAddress(@, user, t.value, t.trade.coin)
                        ELSE @,
             !.credited = IF tracked THEN Credit(@, user, t.value) ELSE @,
             !.alerts = notifyWhaleTrade(@, t),
             !.count = @ + 1]
  ELSE st

RECURSIVE AnalyzeTrades(_, _, _)
\* message.data.forEach(trade => this.analyzeTrade(trade)), from trade i on
AnalyzeTrades(data, i, st) ==
  IF i > Len(data) THEN st
  ELSE AnalyzeTrades(data, i + 1, analyzeTrade(st, data[i]))

\* updatePrices(midsData): mids is the set of entries of midsData.mids
updatePrices(prices, mids) ==
  [c \in DOMAIN prices \cup {e.coin : e \in mids} |->
     IF \E e \in mids : e.coin = c
     THEN parseFloat((CHOOSE e \in mids : e.coin = c).px)
     ELSE prices[c]]

\* analyzeOrderbook, one level: the order it pushes to largeOrders, if any.
\* A level is an array [price, size] (form "array"), an object read by its
\* px and sz (form "object": without both it is skipped), or null (form
\* "null": reading level.px throws a TypeError).
LargeOrder(side, level) ==
  IF level.form = "object" /\ (level.px = Undefined \/ level.sz = Undefined)
  THEN <<>>
  ELSE LET value == DoubleMul(parseFloat(level.px), parseFloat(level.sz))
       IN IF DoubleGeq(value, WHALE_THRESHOLD_USD)
          THEN <<[side |-> side, px |-> level.px, sz |-> level.sz,
                  value |-> value]>>
          ELSE <<>>

\* levels[k].forEach(...) of one side throws at a null level
LevelsThrow(levels) ==
  \E i \in 1..Len(levels) : levels[i].form = "null"

RECURSIVE LargeOrders(_, _, _)
\* levels[k].forEach(...) of one side, from level i on, up to the level
\* that throws
LargeOrders(side, levels, i) ==
  IF i > Len(levels) \/ levels[i].form = "null" THEN <<>>
  ELSE LargeOrder(side, levels[i]) \o LargeOrders(side, levels, i + 1)

\* sample order books: levels of bids and asks (levels FALSE: no levels
\* array), with the orders analyzeOrderbook collects and whether it throws
NullLevel == [form |-> "null", px |-> Undefined, sz |-> Undefined]
BookSamples ==
  { [coin |-> "ETH", levels |-> TRUE,
     bids |-> <<[form |-> "object", px |-> "2500", sz |-> "40"]>>,
     asks |-> <<[form |-> "object", px |-> "2499.99", sz |-> "40"]>>],
    [coin |-> "ETH", levels |-> TRUE,
     bids |-> <<[form |-> "object", px |-> "2499.99", sz |-> "40"]>>,
     asks |-> <<[form |-> "object", px |-> "2499.99", sz |-> "40"]>>],
    [coin |-> "BTC", levels |-> TRUE,
     bids |-> <<[form |-> "object", px |-> "64250.5", sz |-> "2.1"]>>,
     asks |-> <<[form |-> "object", px |-> "64250.5", sz |-> "2.1"],
                [form |-> "object", px |-> "64250.5", sz |-> "0.1"]>>],
    [coin |-> "ETH", levels |-> TRUE,
     bids |-> <<[form |-> "object", px |-> Undefined, sz |-> Undefined]>>,
     asks |-> <<[form |-> "object", px |-> "2499.99", sz |-> "40"]>>],
    [coin |-> "SOL", levels |-> TRUE,
     bids |-> <<[form |-> "object", px |-> Undefined, sz |-> Undefined],
                [form |-> "array", px |-> "2500", sz |-> "40"],
                [form |-> "array", px |-> "2499.99", sz |-> "40"]>>,
     asks |-> <<[form |-> "object", px |-> "64250.5", sz |-> "2.1"]>>],
    [coin |-> "SOL", levels |-> TRUE,
     bids |-> <<[form |-> "object", px |-> "64250.5", sz |-> "2.1"]>>,
     asks |-> <<NullLevel,
                [form |-> "object", px |-> "64250.5", sz |-> "2.1"]>>],
    [coin |-> "ETH", levels |-> FALSE, bids |-> <<>>, asks |-> <<>>] }
Books ==
  { [book |-> b,
     largeOrders |-> LargeOrders("BID", b.bids, 1)
                       \o (IF LevelsThrow(b.bids) THEN <<>>
                           ELSE LargeOrders("ASK", b.asks, 1)),
     threw |-> LevelsThrow(b.bids) \/ LevelsThrow(b.asks)]
      : b \in BookSamples }

\* notifyWhaleOrder(coin, orders): one alert for all large orders
notifyWhaleOrder(alerts, coin, orders) ==
  Append(alerts, [kind |-> "order", coin |-> coin, n |-> Len(orders),
                  orders |-> [i \in 1..Len(orders) |->
                                [side |-> orders[i].side, px |-> orders[i].px,
                                 sz |-> orders[i].sz]]])

\* analyzeOrderbook(bookData) on the state st of the handler: an exception
\* is logged by the catch and nothing is notified
analyzeOrderbook(st, b) ==
  IF ~b.book.levels \/ b.threw THEN st
  ELSE IF Len(b.largeOrders) > 0
  THEN [st EXCEPT !.alerts = notifyWhaleOrder(@, b.book.coin, b.largeOrders)]
  ELSE st

\* sample mids of the allMids channel (none: data without mids)
MidsSamples ==
  { {}, {[coin |-> "BTC", px |-> "64250.5"], [coin |-> "ETH", px |-> "2500"]} }

NoBook == [book |-> [coin |-> "-", levels |-> FALSE, bids |-> <<>>,
                     asks |-> <<>>],
           largeOrders |-> <<>>, threw |-> FALSE]

\* the messages of the Hyperliquid Info feed, the trades with their numbers:
\* trades, all mids, an order book, and the subscription response
FeedMessages ==
  { [channel |-> "trades",
     trades |-> [i \in 1..Len(l) |-> TradeNumbers(l[i])],
     mids |-> {}, book |-> NoBook] : l \in TradeLists }
  \cup
  { [channel |-> "allMids", trades |-> <<>>, mids |-> m, book |-> NoBook]
      : m \in MidsSamples }
  \cup
  { [channel |-> "l2Book", trades |-> <<>>, mids |-> {}, book |-> b]
      : b \in Books }
  \cup
  { [channel |-> "subscriptionResponse", trades |-> <<>>, mids |-> {},
     book |-> NoBook] }

\* handleHyperliquidMessage(data): what the handler makes of the tracker's
\* maps and counters, and the alerts it raises
handleHyperliquidMessage(message) ==
  LET st == [whales |-> whaleAddresses, count |-> tradeCount,
             prices |-> priceCache, alerts |-> <<>>, credited |-> attributed]
  IN IF message.channel = "trades"
     THEN AnalyzeTrades(message.trades, 1, st)
     ELSE IF message.channel = "allMids"
     THEN [st EXCEPT !.prices = updatePrices(@, message.mids)]
     ELSE IF message.channel = "l2Book"
     THEN analyzeOrderbook(st, message.book)
     ELSE st

\* sendTelegramMessage(message) called k times in one handler: the first call
\* starts processTelegramQueue if none runs, the others only push
\* (variant: a message is only taken while no consumer is running)
sendTelegramMessagesIfIdle(k) ==
  IF ~telegramConfigured \/ k = 0
  THEN UNCHANGED <<telegramQueue, isSendingTelegram, consumer, sinkSends,
                   sinkStart, nextMsg>>
  ELSE LET q == telegramQueue \o [i \in 1..k |-> nextMsg + i - 1]
       IN /\ nextMsg' = nextMsg + k
          /\ IF ~isSendingTelegram
             THEN \E c \in Consumers :
                    /\ consumer[c].pc = "done"
                    /\ \A d \in Consumers : d < c => consumer[d].pc # "done"
                    /\ processTelegramQueue(c, q)
             ELSE UNCHANGED <<telegramQueue, isSendingTelegram, consumer,
                              sinkSends, sinkStart>>
sendTelegramMessages(k) ==
  IF ~telegramConfigured \/ k = 0
  THEN UNCHANGED <<telegramQueue, isSendingTelegram, consumer, sinkSends,
                   sinkStart, nextMsg>>
  ELSE LET q == telegramQueue \o [i \in 1..k |-> nextMsg + i - 1]
       IN /\ nextMsg' = nextMsg + k
          /\ IF ~isSendingTelegram
             THEN \E c \in Consumers :
                    /\ consumer[c].pc = "done"
                    /\ \A d \in Consumers : d < c => consumer[d].pc # "done"
                    /\ processTelegramQueue(c, q)
             ELSE /\ telegramQueue' = q
                  /\ UNCHANGED <<isSendingTelegram, consumer, sinkSends,
                                 sinkStart>>

\* CONFIG.TELEGRAM_BATCH_ALERTS: process.env.TELEGRAM_BATCH_ALERTS !== 'false',
\* true when the variable is not set
BatchAlertsDefault == TRUE

TradeInit ==
  /\ batchAlerts = BatchAlertsDefault
  /\ priceCache = <<>>
  /\ whaleAddresses = <<>>
  /\ tradeCount = 0
  /\ pendingAlerts = <<>>
  /\ batchTimer = Null
  /\ consoleAlerts = <<>>
  /\ feedCount = 0
  /\ lastFeed = [channel |-> "none"]
  /\ attributed = <<>>

\* this.ws.on('message', ...): one message of the Hyperliquid Info feed
TrackerFeedMessage(message) ==
  /\ UNCHANGED NotTrackerFeed
  /\ tExit = "running"
  /\ \E s \in Slots : tSock["hyperliquid"][s] = "open"
  /\ feedCount < MaxFeedMsgs
  /\ feedCount' = feedCount + 1
  /\ lastFeed' = message
  /\ LET st == handleHyperliquidMessage(message)
     IN /\ whaleAddresses' = st.whales
        /\ tradeCount' = st.count
        /\ priceCache' = st.prices
        /\ attributed' = st.credited
        /\ consoleAlerts' = consoleAlerts \o st.alerts
        /\ sendTelegramMessages(Len(st.alerts))
  /\ UNCHANGED <<batchAlerts, pendingAlerts, batchTimer>>
  /\ UNCHANGED <<now, telegramConfigured, lastTelegramSent, sinkLastEnd,
                 rateLimited, sinkResults>>

TradeNext == \E message \in FeedMessages : TrackerFeedMessage(message)

(***************************************************************************)
(* Transfer monitor (unnamed/part_001)                                     *)
(***************************************************************************)
\* stats.largestTransferTx before the first transfer: null
NoSignature == "null"
\* MIN_TRANSFER_AMOUNT, in SOL
MIN_TRANSFER_AMOUNT == DoubleOfInt(100)
\* lamports per SOL: the divisor 1_000_000_000
LAMPORTS_PER_SOL == 1000000000

\* data.readBigUInt64LE(offset) as a natural
readBigUInt64LE(buffer, offset) ==
  NatOfBytesLE(SubSeq(buffer, offset + 1, offset + 8))

\* Number(lamports)
NumberOfBigInt(n) == RoundToDouble(n, FALSE, 0)

\* parseTransferInstruction(instruction, accountKeys): null for other
\* instructions and when an exception is caught (Buffer.from(undefined))
parseTransferInstruction(instruction, accountKeys) ==
  LET data == instruction.data
  IN IF Len(data) < 12 THEN Null
     ELSE IF readUInt32LE(data, 0).value # 2 THEN Null
     ELSE LET lamports == readBigUInt64LE(data, 4)
              accountIndices == instruction.accounts
          IN IF Len(accountIndices) < 2 THEN Null
             ELSE LET fromKey == At0(accountKeys, accountIndices[1])
                      toKey == At0(accountKeys, accountIndices[2])
                  IN IF fromKey = Undefined \/ toKey = Undefined THEN Null
                     ELSE [tag |-> "ok",
                           amount |-> NumberOfBigInt(lamports),
                           from |-> Bs58Address(fromKey),
                           to |-> Bs58Address(toKey)]

\* what the body of the instruction loop does for instruction i (0-based):
\* "throw", "skip", or the transfer it displays
TransferInstruction(tx, i) ==
  LET instruction == tx.instructions[i + 1]
      programId == Bs58Encode(At0(tx.accountKeys, instruction.programIdIndex))
  IN IF programId.tag = "throw" THEN [tag |-> "throw"]
     ELSE IF programId.value # SYSTEM_PROGRAM THEN [tag |-> "skip"]
     ELSE LET transferData ==
                parseTransferInstruction(instruction, tx.accountKeys)
          IN IF transferData.tag = "null" THEN [tag |-> "skip"]
             ELSE LET solAmount ==
                        DoubleDivInt(transferData.amount, LAMPORTS_PER_SOL)
                  IN IF DoubleGeq(solAmount, MIN_TRANSFER_AMOUNT)
                     THEN [tag |-> "transfer", index |-> i,
                           amount |-> transferData.amount,
                           from |-> transferData.from,
                           to |-> transferData.to,
                           signature |-> tx.signature,
                           slot |-> tx.slot]
                     ELSE [tag |-> "skip"]

\* the instruction loop of the data handler from instruction i on: an
\* exception leaves the loop for the handler's catch
\* (variant: the transfers are displayed latest first)
RECURSIVE TransferLoopLatestFirst(_, _, _)
TransferLoopLatestFirst(tx, i, shown) ==
  IF i >= Len(tx.instructions)
  THEN [shown |-> shown, threw |-> FALSE]
  ELSE LET r == TransferInstruction(tx, i)
       IN IF r.tag = "throw" THEN [shown |-> shown, threw |-> TRUE]
          ELSE IF r.tag = "skip" THEN TransferLoopLatestFirst(tx, i + 1, shown)
          ELSE TransferLoopLatestFirst(tx, i + 1, <<r>> \o shown)
RECURSIVE TransferLoop(_, _, _)
TransferLoop(tx, i, shown) ==
  IF i >= Len(tx.instructions)
  THEN [shown |-> shown, threw |-> FALSE]
  ELSE LET r == TransferInstruction(tx, i)
       IN IF r.tag = "throw" THEN [shown |-> shown, threw |-> TRUE]
          ELSE IF r.tag = "skip" THEN TransferLoop(tx, i + 1, shown)
          ELSE TransferLoop(tx, i + 1, Append(shown, r))

\* a display that takes a transfer equal to the largest as the new largest
displayTransferLatestLargest(st, transferData) ==
  LET larger == DoubleGeq(transferData.amount, st.largestTransfer)
  IN [totalTransfers |-> st.totalTransfers + 1,
      totalVolume |-> DoubleAdd(st.totalVolume, transferData.amount),
      largestTransfer |-> IF larger THEN transferData.amount
                          ELSE st.largestTransfer,
      largestTransferTx |-> IF larger THEN transferData.signature
                            ELSE st.largestTransferTx]

\* displayTransfer(transferData) on the statistics st
displayTransfer(st, transferData) ==
  LET larger == DoubleLess(st.largestTransfer, transferData.amount)
  IN [totalTransfers |-> st.totalTransfers + 1,
      totalVolume |-> DoubleAdd(st.totalVolume, transferData.amount),
      largestTransfer |-> IF larger THEN transferData.amount
                          ELSE st.largestTransfer,
      largestTransferTx |-> IF larger THEN transferData.signature
                            ELSE st.largestTransferTx]

RECURSIVE DisplayTransfers(_, _, _)
\* the calls of displayTransfer for the transfers shown, from the i-th on
DisplayTransfers(shown, i, st) ==
  IF i > Len(shown) THEN st
  ELSE DisplayTransfers(shown, i + 1, displayTransfer(st, shown[i]))

\* sample amounts in lamports, as the 8 little-endian bytes of the
\* instruction: 100 SOL, one lamport less, 250 SOL, 5 SOL
Lamports100Sol == <<0, 232, 118, 72, 23, 0, 0, 0>>
LamportsBelow100Sol == <<255, 231, 118, 72, 23, 0, 0, 0>>
Lamports250Sol == <<0, 68, 41, 53, 58, 0, 0, 0>>
Lamports5Sol == <<0, 242, 5, 42, 1, 0, 0, 0>>
\* 2^53 - 1 lamports, the largest amount below which every natural is a number
LamportsMaxSafe == <<255, 255, 255, 255, 255, 255, 31, 0>>
LamportSamples ==
  {Lamports100Sol, LamportsBelow100Sol, Lamports250Sol, Lamports5Sol,
   LamportsMaxSafe}

\* the account keys of the sample transactions; index 2 is the System Program
TransferAccountKeys == <<"keyA", "keyB", "keySystem", "keyPump">>

\* a System Program transfer of the given lamports from keyA to keyB
TransferIx(lamports) ==
  [programIdIndex |-> 2, data |-> <<2, 0, 0, 0>> \o lamports,
   accounts |-> <<0, 1>>]

\* sample instructions: transfers, and instructions that are skipped or
\* throw: another System Program instruction (type 0), a short payload, a
\* transfer with one account, one whose account has no key, an instruction
\* of another program, and one whose program index has no key
TransferInstructions ==
  { TransferIx(l) : l \in LamportSamples }
  \cup
  { [programIdIndex |-> 2, data |-> <<0, 0, 0, 0>> \o Lamports250Sol,
     accounts |-> <<0, 1>>],
    [programIdIndex |-> 2, data |-> <<2, 0, 0, 0>>, accounts |-> <<0, 1>>],
    [programIdIndex |-> 2, data |-> <<2, 0, 0, 0>> \o Lamports250Sol,
     accounts |-> <<0>>],
    [programIdIndex |-> 2, data |-> <<2, 0, 0, 0>> \o Lamports250Sol,
     accounts |-> <<0, 9>>],
    [programIdIndex |-> 3, data |-> <<2, 0, 0, 0>> \o Lamports250Sol,
     accounts |-> <<0, 1>>],
    [programIdIndex |-> 9, data |-> <<2, 0, 0, 0>> \o Lamports250Sol,
     accounts |-> <<0, 1>>] }

\* the stream messages: the server's pong, an update of another kind, and
\* transaction updates of one instruction, or of a 250 SOL transfer before
\* another instruction.  filter is whether message.filters includes
\* "sol_transfers".
TransferMessages ==
  { [kind |-> k, pongId |-> 7, filter |-> FALSE, signature |-> "-",
     slot |-> 0, accountKeys |-> <<>>, instructions |-> <<>>]
      : k \in {"pong", "other"} }
  \cup
  { [kind |-> "pong", pongId |-> 8, filter |-> FALSE, signature |-> "-",
     slot |-> 0, accountKeys |-> <<>>, instructions |-> <<>>] }
  \cup
  { [kind |-> "transaction", pongId |-> 7, filter |-> TRUE,
     signature |-> "signature1", slot |-> 1,
     accountKeys |-> TransferAccountKeys, instructions |-> <<i>>]
      : i \in TransferInstructions }
  \cup
  { [kind |-> "transaction", pongId |-> 7, filter |-> TRUE,
     signature |-> "signature2", slot |-> 2,
     accountKeys |-> TransferAccountKeys,
     instructions |-> <<TransferIx(Lamports250Sol), i>>]
      : i \in { TransferIx(Lamports100Sol), TransferIx(Lamports5Sol),
                [programIdIndex |-> 9,
                 data |-> <<2, 0, 0, 0>> \o Lamports250Sol,
                 accounts |-> <<0, 1>>] } }
  \cup
  { [kind |-> "transaction", pongId |-> 7, filter |-> FALSE,
     signature |-> "signature1", slot |-> 1,
     accountKeys |-> TransferAccountKeys,
     instructions |-> <<TransferIx(Lamports250Sol)>>] }

\* each message with what the instruction loop does for it
TransferHandled ==
  { [message |-> m, loop |-> TransferLoop(m, 0, <<>>)]
      : m \in TransferMessages }

TransferInit ==
  /\ xPc = "init"
  /\ totalTransfers = 0
  /\ totalVolume = Zero
  /\ largestTransfer = Zero
  /\ largestTransferTx = NoSignature
  /\ xMsg = [kind |-> "none"]
  /\ xShown = <<>>
  /\ xPingReply = NoReply
  /\ xHandlerError = FALSE
  /\ xHandled = 0

\* main(): monitorHighValueTransfers() is awaited
TransferMain ==
  /\ UNCHANGED NotTransfer
  /\ xPc = "init"
  /\ xPc' = "subscribing"
  /\ UNCHANGED <<totalTransfers, totalVolume, largestTransfer,
                 largestTransferTx, xMsg, xShown, xPingReply, xHandlerError,
                 xHandled>>

\* new Client(...) throws or client.subscribe() rejects: the promise is
\* rejected and main() logs and sets the 5 s restart timer
TransferSubscribeFails ==
  /\ UNCHANGED NotTransfer
  /\ xPc = "subscribing"
  /\ xPc' = "restartWait"
  /\ UNCHANGED <<totalTransfers, totalVolume, largestTransfer,
                 largestTransferTx, xMsg, xShown, xPingReply, xHandlerError,
                 xHandled>>

\* client.subscribe() resolves: the handlers are registered and the
\* subscription request written
TransferSubscribed ==
  /\ UNCHANGED NotTransfer
  /\ xPc = "subscribing"
  /\ xPc' = "writing"
  /\ UNCHANGED <<totalTransfers, totalVolume, largestTransfer,
                 largestTransferTx, xMsg, xShown, xPingReply, xHandlerError,
                 xHandled>>

\* the callback of stream.write(request, ...): with an error the promise is
\* rejected and main() sets the restart timer
TransferWriteDone(err) ==
  /\ UNCHANGED NotTransfer
  /\ xPc = "writing"
  /\ xPc' = IF err THEN "restartWait" ELSE "streaming"
  /\ UNCHANGED <<totalTransfers, totalVolume, largestTransfer,
                 largestTransferTx, xMsg, xShown, xPingReply, xHandlerError,
                 xHandled>>

\* setTimeout(main, 5000) fires
TransferRestartTimer ==
  /\ UNCHANGED NotTransfer
  /\ xPc = "restartWait"
  /\ xPc' = "subscribing"
  /\ UNCHANGED <<totalTransfers, totalVolume, largestTransfer,
                 largestTransferTx, xMsg, xShown, xPingReply, xHandlerError,
                 xHandled>>

\* stream.on("error", ...): the promise is rejected and main() sets the
\* restart timer
TransferStreamError ==
  /\ UNCHANGED NotTransfer
  /\ xPc = "streaming"
  /\ xPc' = "restartWait"
  /\ UNCHANGED <<totalTransfers, totalVolume, largestTransfer,
                 largestTransferTx, xMsg, xShown, xPingReply, xHandlerError,
                 xHandled>>

\* stream.on("end" / "close", ...): the promise is resolved and main() returns
TransferStreamEnd ==
  /\ UNCHANGED NotTransfer
  /\ xPc = "streaming"
  /\ xPc' = "returned"
  /\ UNCHANGED <<totalTransfers, totalVolume, largestTransfer,
                 largestTransferTx, xMsg, xShown, xPingReply, xHandlerError,
                 xHandled>>

\* SIGINT: the totals are printed and process.exit(0)
TransferSigint ==
  /\ UNCHANGED NotTransfer
  /\ xPc \notin {"init", "exit0"}
  /\ xPc' = "exit0"
  /\ UNCHANGED <<totalTransfers, totalVolume, largestTransfer,
                 largestTransferTx, xMsg, xShown, xPingReply, xHandlerError,
                 xHandled>>

\* stream.on("data", ...): the handler for one message
TransferData(message, loop) ==
  /\ UNCHANGED NotTransfer
  /\ xPc = "streaming"
  /\ xHandled < MaxTransferMsgs
  /\ xHandled' = xHandled + 1
  /\ xMsg' = message
  /\ IF message.kind = "pong"
     THEN /\ xPingReply' = message.pongId
          /\ xShown' = <<>>
          /\ xHandlerError' = FALSE
          /\ UNCHANGED <<totalTransfers, totalVolume, largestTransfer,
                         largestTransferTx>>
     ELSE IF message.kind = "transaction" /\ message.filter
     THEN LET st == DisplayTransfers(loop.shown, 1,
                      [totalTransfers |-> totalTransfers,
                       totalVolume |-> totalVolume,
                       largestTransfer |-> largestTransfer,
                       largestTransferTx |-> largestTransferTx])
          IN /\ totalTransfers' = st.totalTransfers
             /\ totalVolume' = st.totalVolume
             /\ largestTransfer' = st.largestTransfer
             /\ largestTransferTx' = st.largestTransferTx
             /\ xShown' = loop.shown
             /\ xHandlerError' = loop.threw
             /\ xPingReply' = NoReply
     ELSE /\ xShown' = <<>>
          /\ xHandlerError' = FALSE
          /\ xPingReply' = NoReply
          /\ UNCHANGED <<totalTransfers, totalVolume, largestTransfer,
                         largestTransferTx>>
  /\ UNCHANGED xPc

TransferNext ==
  \/ TransferMain
  \/ TransferSubscribeFails
  \/ TransferSubscribed
  \/ \E err \in BOOLEAN : TransferWriteDone(err)
  \/ TransferRestartTimer
  \/ TransferStreamError
  \/ TransferStreamEnd
  \/ TransferSigint
  \/ \E h \in TransferHandled : TransferData(h.message, h.loop)

(***************************************************************************)
(* Specifications                                                          *)
(***************************************************************************)
ScriptsInit ==
  /\ NotifyInit
  /\ ListenerConnInit
  /\ TrackerConnInit
  /\ MintInit
  /\ MigrationInit
  /\ TradeInit
  /\ TransferInit

Init ==
  /\ ScriptsInit
  /\ DecodeInit

\* the Telegram notification queue of the whale tracker
SpecNotify == Init /\ [][NotifyNext]_vars

\* the queue with Telegram configured, over unbounded time: every fetch and
\* response.json() settles, every timer fires, and time passes
NotifyLiveInit == Init /\ telegramConfigured = TRUE /\ hyperevmConfigured = TRUE
SpecNotifyLive ==
  NotifyLiveInit /\ [][NotifyLiveNext]_vars /\ WF_vars(QueueLiveNext)

\* the connection managers of the migration listener and of the whale tracker
ConnNext == ListenerConnNext \/ TrackerConnNext
SpecConn == Init /\ [][ConnNext]_vars

\* the mint monitor
\* the tracker is not running beside it: its configuration is fixed
WatcherInit == Init /\ telegramConfigured = TRUE /\ hyperevmConfigured = TRUE
SpecMint == WatcherInit /\ [][MintNext]_vars

\* the migration listener from start to the records, on its first connection
MigrationListenerNext ==
  \/ ListenerStart
  \/ \E s \in Slots : ListenerHandleOpen(s)
  \/ MigrationNext
SpecMigration == WatcherInit /\ [][MigrationListenerNext]_vars

\* the whale tracker from start to the analysis of the feed messages, on
\* its first connections
TrackerFeedNext ==
  \/ TrackerStart
  \/ \E f \in Feeds, s \in Slots : TrackerHandleOpen(f, s)
  \/ TradeNext
SpecTrades == WatcherInit /\ [][TrackerFeedNext]_vars

\* the transfer monitor
SpecTransfer == WatcherInit /\ [][TransferNext]_vars

\* the whale tracker with its notification queue: feed messages of one alert
\* at most, while the queue consumer runs.  start() follows the constructor
\* and the Hyperliquid feed opens at once: the time that passes before the
\* first feed message does not matter to the queue.  The sink answers, fails
\* or limits the rate with retry_after = 1.
AlertFeed ==
  {m \in FeedMessages :
     \/ /\ m.channel = "trades"
        /\ \E t \in {Btc21, EthBelowThreshold} : m.trades = <<TradeNumbers(t)>>
     \/ /\ m.channel = "l2Book"
        /\ m.book.book.coin = "BTC"}
AlertsNext ==
  \/ (now = StartTime /\ TrackerStart)
  \/ (now = StartTime /\ \E s \in Slots : TrackerHandleOpen("hyperliquid", s))
  \/ \E message \in AlertFeed : TrackerFeedMessage(message)
  \/ (now + TickMs <= AlertsMaxTime /\ Tick)
  \/ \E c \in Consumers :
       \/ FetchThrows(c)
       \/ FetchOk(c)
       \/ \E status \in {"429", "400"} : FetchNotOk(c, status)
       \/ JsonThrows(c)
       \/ JsonParsed(c, 1)
       \/ AwaitedTimerElapsed(c)
       \/ NextTimerFires(c)
SpecAlerts == WatcherInit /\ [][AlertsNext]_vars

\* the mint monitor on an established stream of successful transaction
\* updates of its filter
MintTransactions ==
  {h \in MintHandled :
     /\ h.message.kind = "transaction"
     /\ h.message.filter
     /\ ~h.message.failed}
MintLoopNext ==
  \/ MintMain
  \/ MintSubscribed
  \/ MintWriteDone(FALSE)
  \/ \E h \in MintTransactions : MintData(h.message, h.loop)
SpecMintLoop == WatcherInit /\ [][MintLoopNext]_vars

\* the decoding of one instruction by the mint monitor, for each of the
\* sample instructions
DecodeInputInit ==
  /\ ScriptsInit
  /\ telegramConfigured = TRUE
  /\ hyperevmConfigured = TRUE
  /\ DecodeInput
SpecDecode == DecodeInputInit /\ [][DecodeNext]_vars

\* each script is a process of its own: one script runs while the others have
\* not been started
MintNotStarted == mPc = "init"
ListenerNotStarted == ~lStarted
TrackerNotStarted == ~tStarted
TransferNotStarted == xPc = "init"

\* the two watchers with a threshold: the transfer monitor, or the whale
\* tracker on its first connections
WhaleEventsNext ==
  \/ (TrackerNotStarted /\ TransferNext)
  \/ (TransferNotStarted /\ TrackerFeedNext)
SpecWhaleEvents == WatcherInit /\ [][WhaleEventsNext]_vars

\* the inputs of the runs with the whole connection lifecycle: stream
\* messages of at most one instruction, migration logs of two signatures, and
\* two trades of one address
CounterMints == {h \in MintHandled : Len(h.message.instructions) <= 1}
CounterLogs ==
  {r \in LogRecords : /\ r.signature \in {"sigRaydium", "sigPumpswap"}
                       /\ ~r.err
                       /\ r.logs = <<"Program log: Instruction: Migrate">>}
CounterFeed ==
  {m \in FeedMessages :
     /\ m.channel = "trades"
     /\ \E t \in {Btc17, Btc21} : m.trades = <<TradeNumbers(t)>>}

\* every script with its statistics, through disconnects, reconnects and
\* restarts
CountersNext ==
  \/ /\ ListenerNotStarted /\ TrackerNotStarted /\ TransferNotStarted
     /\ \/ MintMain
        \/ MintSubscribeFails
        \/ MintSubscribed
        \/ \E err \in BOOLEAN : MintWriteDone(err)
        \/ MintRestartTimer
        \/ MintStreamError
        \/ MintStreamEnd
        \/ MintSigint
        \/ \E h \in CounterMints : MintData(h.message, h.loop)
  \/ /\ MintNotStarted /\ TrackerNotStarted /\ TransferNotStarted
     /\ \/ ListenerConnNext
        \/ ListenerSubscriptionConfirmed
        \/ \E record \in CounterLogs : ListenerProcessLog(record)
        \/ \E signature \in {"sigRaydium", "sigPumpswap"},
              outcome \in {"transaction", "notFound", "throws"} :
             ListenerFetchDone(signature, outcome)
  \/ /\ MintNotStarted /\ ListenerNotStarted /\ TransferNotStarted
     /\ \/ TrackerConnNext
        \/ \E message \in CounterFeed : TrackerFeedMessage(message)
  \/ /\ MintNotStarted /\ ListenerNotStarted /\ TrackerNotStarted
     /\ TransferNext
SpecCounters == WatcherInit /\ [][CountersNext]_vars

\* all scripts, interleaved
Next ==
  \/ NotifyNext
  \/ ListenerConnNext
  \/ TrackerConnNext
  \/ MintNext
  \/ MigrationNext
  \/ TradeNext
  \/ TransferNext
Spec == Init /\ [][Next]_vars

(***************************************************************************)
(* Claims                                                                  *)
(***************************************************************************)

\* C1: a transaction update marked failed produces no event: the mint monitor
\* displays and counts no mint for it, even when its instructions match.
C1_FailedTransactionShowsNothing ==
  (mMsg.kind = "transaction" /\ mMsg.failed) => mShown = <<>>

\* C2: whenever a send to the sink is in flight, it was started at least
\* TELEGRAM_DELAY after the previous send settled (ok, error status, 429 or
\* network error), whatever the queue depth.
C2_MinDelayBetweenSends ==
  \A c \in Consumers :
    consumer[c].pc = "fetch" =>
      \/ sinkLastEnd = -1
      \/ sinkStart - sinkLastEnd >= TELEGRAM_DELAY

\* C2 witness: a second send is in flight, started exactly TELEGRAM_DELAY
\* after the first one settled, while a further message waits in the queue.
C2_Witness ==
  \E c \in Consumers :
    /\ consumer[c].pc = "fetch"
    /\ Len(sinkSends) >= 2
    /\ sinkStart - sinkLastEnd = TELEGRAM_DELAY
    /\ Len(telegramQueue) >= 1

\* C3: after a 429 answer carrying retry_after = R the message is held by
\* the sleeping consumer, or is at the front of the queue with the consumer
\* scheduled, or is the message of the next send; no other message is sent in
\* between, and the retry starts at least R seconds after the 429 answer.
C3_RateLimitedItemRetriedNext ==
  rateLimited.msg # NoMsg =>
    LET m == rateLimited.msg
        n == Len(sinkSends)
    IN /\ n >= 1
       /\ sinkSends[n] = m
       /\ \E c \in Consumers :
            \/ /\ consumer[c].pc = "ratelimit"
               /\ consumer[c].msg = m
            \/ /\ consumer[c].pc = "scheduled"
               /\ Len(telegramQueue) >= 1
               /\ Head(telegramQueue) = m
            \/ /\ consumer[c].pc = "throttle"
               /\ consumer[c].msg = m
            \/ /\ consumer[c].pc = "fetch"
               /\ consumer[c].msg = m
               /\ n >= 2
               /\ sinkSends[n - 1] = m
               /\ sinkStart >= rateLimited.notBefore

\* C3 witness: the retry of a rate-limited message is in flight while a
\* message enqueued later still waits behind it.
C3_Witness ==
  /\ rateLimited.msg # NoMsg
  /\ Len(telegramQueue) >= 1
  /\ \E c \in Consumers :
       /\ consumer[c].pc = "fetch"
       /\ consumer[c].msg = rateLimited.msg
       /\ Len(sinkSends) >= 2
       /\ sinkSends[Len(sinkSends) - 1] = rateLimited.msg

\* C4: every successful open of a connection (the migration listener's, the
\* whale tracker's Hyperliquid Info feed and its HyperEVM feed) leaves the
\* reconnect-attempt counter at zero.
C4_AttemptsResetOnOpen ==
  [][/\ \A s \in Slots :
          (lSock[s] = "connecting" /\ lSock'[s] = "open") => lAttempts' = 0
     /\ \A f \in Feeds, s \in Slots :
          (tSock[f][s] = "connecting" /\ tSock'[f][s] = "open") => tAttempts' = 0
    ]_vars

\* C5: the n-th reconnect delay scheduled since the attempt counter was last
\* zero, and the delay of every pending reconnect timer for attempt n, is
\* min(1000 * 2^n, 30000) with n in 1..max attempts; the delays of consecutive
\* failed attempts never decrease and never exceed 30000.
C5_BackoffDelays ==
  LET Claimed(n) == IF 1000 * (2 ^ n) < 30000 THEN 1000 * (2 ^ n) ELSE 30000
      Sequence(delays, attempts, max) ==
        /\ Len(delays) = attempts
        /\ attempts <= max
        /\ \A n \in 1..Len(delays) :
             /\ delays[n] = Claimed(n)
             /\ delays[n] <= 30000
             /\ n > 1 => delays[n - 1] <= delays[n]
      Timers(timers, max) ==
        \A i \in 1..Len(timers) :
          /\ timers[i].attempt \in 1..max
          /\ timers[i].delay = Claimed(timers[i].attempt)
  IN /\ Sequence(lDelays, lAttempts, ListenerMaxReconnectAttempts)
     /\ Timers(lTimers, ListenerMaxReconnectAttempts)
     /\ Sequence(tDelays, tAttempts, TrackerMaxReconnectAttempts)
     /\ Timers(tTimers, TrackerMaxReconnectAttempts)

\* C5 witness: the listener's tenth and the tracker's fifth reconnect are
\* pending, both at the cap.
C5_Witness ==
  /\ \E i \in 1..Len(lTimers) :
       /\ lTimers[i].attempt = ListenerMaxReconnectAttempts
       /\ lTimers[i].delay = CapDelayMs
  /\ \E i \in 1..Len(tTimers) :
       /\ tTimers[i].attempt = TrackerMaxReconnectAttempts
       /\ tTimers[i].delay = CapDelayMs
  /\ Len(lDelays) = ListenerMaxReconnectAttempts
  /\ lDelays[1] < lDelays[2]

\* C6 as stated: once the attempts are used up the manager leaves the process
\* running (the exit is the caller's decision).
C6_ManagerLeavesExitToCaller ==
  lFatalLogged => lExit = "running"

\* C6 as amended: when a connection closes with the attempts used up, no
\* reconnect is scheduled and no socket is left; the migration listener logs
\* and ends the process itself with process.exit(1), the whale tracker only
\* logs the feed and keeps running without it.
C6_ExhaustedListenerExitsTrackerLogs ==
  /\ lFatalLogged <=> lExit = "exit1"
  /\ lFatalLogged =>
       /\ lAttempts = ListenerMaxReconnectAttempts
       /\ lTimers = <<>>
       /\ \A s \in Slots : lSock[s] = "free"
  /\ \A f \in tFatalLogged :
       /\ tExit # "exit1"
       /\ \A i \in 1..Len(tTimers) : tTimers[i].connection # f
       /\ tExit = "running" => \A s \in Slots : tSock[f][s] = "free"

\* C6 witness: the listener has ended the process after its tenth attempt
\* and the tracker, still running, has given up its Info feed.
C6_Witness ==
  /\ lFatalLogged
  /\ lExit = "exit1"
  /\ "hyperliquid" \in tFatalLogged
  /\ tExit = "running"

\* C7: once stop() has been called no reconnect timer is pending and no
\* socket is connecting or open, in the listener and in the tracker.
C7_StopIsTerminal ==
  /\ lStopped => (lTimers = <<>> /\ Live(lSock) = {})
  /\ tStopped => (tTimers = <<>> /\ \A f \in Feeds : Live(tSock[f]) = {})

\* C8: once the mint monitor's established stream is lost (error, end or
\* close) and the monitor has not been stopped, a restart is pending or a new
\* subscription is under way.
C8_LostStreamIsResubscribed ==
  (mStreamLost /\ mPc # "exit0") =>
    mPc \in {"restartWait", "subscribing", "writing", "streaming"}

\* C9: in the transaction the mint monitor handled last, every instruction
\* that yields a mint by itself is among the mints displayed, whatever
\* happened to the instructions before it.
C9_FailureSkipsOnlyThatInstruction ==
  (mMsg.kind = "transaction" /\ mMsg.filter) =>
    \A i \in 0..(Len(mMsg.instructions) - 1) :
      MintInstruction(mMsg, i).tag = "mint" =>
        \E k \in 1..Len(mShown) : mShown[k].index = i

\* C10: no recorded migration carries a placeholder in place of an account
\* address.
C10_NoPlaceholderAddress ==
  \A k \in 1..Len(migrations) :
    migrations[k].type = "pumpswap" =>
      /\ migrations[k].tokenAddress # UnknownAddress
      /\ migrations[k].bondingCurve # UnknownAddress

\* C11: no signature is fetched twice, and no two recorded migrations carry
\* the same signature.
C11_OneFetchPerSignature ==
  /\ \A i, j \in 1..Len(fetchesIssued) :
       i # j => fetchesIssued[i] # fetchesIssued[j]
  /\ \A i, j \in 1..Len(migrations) :
       i # j => migrations[i].signature # migrations[j].signature

\* C12: while a socket is open the next log notification can be handled
\* whatever fetches are pending; handling it leaves the pending fetches in
\* place; every fetch issued is pending or has completed; and a fetch that
\* returns a transaction with a migration in it appends exactly that migration
\* when it completes, in completion order.
C12_FetchesDoNotBlockAndAreNotLost ==
  /\ [](ListenerReceiving /\ totalLogsReceived < MaxLogs =>
          \A record \in LogRecords : ENABLED ListenerProcessLog(record))
  /\ [](\A sig \in Signatures :
          pendingFetches[sig] <=
            Cardinality({i \in 1..Len(fetchesIssued) : fetchesIssued[i] = sig}))
  /\ [][/\ totalLogsReceived' # totalLogsReceived =>
            \A sig \in Signatures : pendingFetches'[sig] >= pendingFetches[sig]
        /\ \A sig \in Signatures :
             pendingFetches'[sig] < pendingFetches[sig] =>
               LET data == extractMigrationData(ChainTx(sig), sig, 1)
               IN /\ lastFetch'.signature = sig
                  /\ \A other \in Signatures \ {sig} :
                       pendingFetches'[other] = pendingFetches[other]
                  /\ (lastFetch'.outcome = "transaction" /\ data.tag = "ok") =>
                       migrations' = Append(migrations, data.data)
       ]_vars

\* C12 witness: two fetches were issued while the first was pending and their
\* migrations are recorded in the opposite order.
C12_Witness ==
  /\ Len(fetchesIssued) = 2
  /\ Len(migrations) = 2
  /\ fetchesIssued[1] # fetchesIssued[2]
  /\ migrations[1].signature = fetchesIssued[2]
  /\ migrations[2].signature = fetchesIssued[1]

\* C13: handling a log notification issues one fetch for its signature if the
\* record is not failed and one of its lines contains "Instruction: Migrate",
\* "migrate" or "initialize2", issues none otherwise, and records no migration;
\* a migration is recorded only when a pending fetch completes with the
\* transaction, and is the one extracted from that transaction.
C13_FetchIffMatchingAndNotFailed ==
  [][/\ totalLogsReceived' # totalLogsReceived =>
          LET r == lastLog'
              qualifies ==
                /\ ~r.err
                /\ \E i \in 1..Len(r.logs) :
                     \E phrase \in {"Instruction: Migrate", "migrate",
                                    "initialize2"} :
                       Includes(r.logs[i], phrase)
          IN /\ migrations' = migrations
             /\ pendingFetches' =
                  IF qualifies
                  THEN [pendingFetches EXCEPT ![r.signature] = @ + 1]
                  ELSE pendingFetches
     /\ migrations' # migrations =>
          \E sig \in Signatures :
            /\ pendingFetches[sig] > 0
            /\ pendingFetches' = [pendingFetches EXCEPT ![sig] = @ - 1]
            /\ lastFetch' = [signature |-> sig, outcome |-> "transaction"]
            /\ LET data == extractMigrationData(ChainTx(sig), sig, 1)
               IN /\ data.tag = "ok"
                  /\ migrations' = Append(migrations, data.data)
    ]_vars

\* C13 witness: a successful record matching only by "initialize2" was
\* fetched and its migration recorded, then a failed matching record was
\* handled without a fetch.
C13_Witness ==
  /\ lastLog.signature = "sigRaydium"
  /\ lastLog.err
  /\ lastLog.matches
  /\ fetchesIssued = <<"sigRaydium">>
  /\ Len(migrations) = 1
  /\ migrations[1].signature = "sigRaydium"
  /\ migrations[1].type = "raydium"

\* C19: a message whose send failed otherwise than by a 429 answer (fetch
\* threw, or an error status other than 429) is not in the queue and is handed
\* to fetch() no more after that, and once that send is dealt with the next call
\* of the consumer is scheduled (or has run).
C19_FailedSendIsDropped ==
  \A i \in 1..Len(sinkResults) :
    sinkResults[i] \in {"throw", "400"} =>
      LET m == sinkSends[i]
      IN /\ \A k \in 1..Len(telegramQueue) : telegramQueue[k] # m
         /\ \A j \in 1..Len(sinkSends) : j > i => sinkSends[j] # m
         /\ \A c \in Consumers :
              consumer[c].msg = m =>
                consumer[c].pc = "json" /\ consumer[c].status = "400"
         /\ telegramQueue # <<>> =>
              \E c \in Consumers : consumer[c].pc # "done"

\* C19 witness: the first message failed with a network error, the second
\* with status 400, and the third has been handed to fetch().
C19_Witness ==
  /\ Len(sinkResults) >= 2
  /\ sinkResults[1] = "throw"
  /\ sinkResults[2] = "400"
  /\ sinkSends = <<1, 2, 3>>

\* C20: no message is handed to fetch() more than twice.
C20_SentAtMostTwice ==
  \A m \in 1..MaxMsgs :
    Cardinality({i \in 1..Len(sinkSends) : sinkSends[i] = m}) <= 2

\* C16: for every address, totalVolume is the sum of the values of the
\* trades credited to it and tradeCount is their number, whatever the order
\* in which these trades arrive.
C16_TotalsIndependentOfOrder ==
  \A a \in DOMAIN whaleAddresses :
    LET values == attributed[a]
    IN /\ whaleAddresses[a].tradeCount = Len(values)
       /\ \A order \in ArrivalOrders(Len(values)) :
            whaleAddresses[a].totalVolume = VolumeInOrder(values, order, 1, Zero)

\* C18: with batching enabled, a whale trade is not handed to the Telegram
\* queue when it is detected: it is added to pendingAlerts, to be flushed as
\* one message per batch interval.
C18_BatchingBuffersTradeAlerts ==
  [][(batchAlerts /\ tradeCount' > tradeCount) =>
       /\ telegramQueue' = telegramQueue
       /\ sinkSends' = sinkSends
       /\ Len(pendingAlerts') = Len(pendingAlerts) + (tradeCount' - tradeCount)
    ]_vars

\* C14: the threshold boundary is inclusive.  A transfer of a transaction of
\* the subscribed filter is displayed and counted exactly when its lamports
\* are at least 100 SOL in exact arithmetic (so the transfer of exactly
\* 100 SOL is, the one a lamport below is not), and a trade is counted as a
\* whale trade exactly when the exact product of its decimal px and sz is at
\* least 100000 or its sz is at least 50.
C14_ThresholdIsInclusive ==
  [][LET Dec(str) == ParseFrom(str, 1, <<>>, -1)
         AtLeast(p, z, n) ==
           ~NatLess(NatMul(p.n, z.n),
                    NatMul(NatOfInt(n), NatOfInt(Pow10(p.k + z.k))))
         Unit == [n |-> NatOfInt(1), k |-> 0]
     IN /\ (/\ xHandled' = xHandled + 1
            /\ xMsg'.kind = "transaction"
            /\ xMsg'.filter
            /\ Len(xMsg'.instructions) = 1) =>
             \A l \in LamportSamples :
               xMsg'.instructions[1] = TransferIx(l) =>
                 ((totalTransfers' = totalTransfers + 1 /\ Len(xShown') = 1)
                    <=> ~NatLess(NatOfBytesLE(l),
                                 NatMul(NatOfInt(100), NatOfInt(1000000000))))
        /\ (/\ feedCount' = feedCount + 1
            /\ lastFeed'.channel = "trades"
            /\ Len(lastFeed'.trades) = 1) =>
             LET t == lastFeed'.trades[1].trade
             IN (tradeCount' = tradeCount + 1)
                  <=> \/ AtLeast(Dec(t.px), Dec(t.sz), 100000)
                      \/ AtLeast(Unit, Dec(t.sz), 50)
    ]_vars

\* C14 witness: the transfer of exactly 100 SOL has been displayed and
\* counted.
C14_Witness ==
  /\ xMsg.kind = "transaction"
  /\ xMsg.instructions = <<TransferIx(Lamports100Sol)>>
  /\ Len(xShown) = 1
  /\ totalTransfers >= 1

\* C15: a message whose trades, order-book levels or transfers are all below
\* the thresholds (in exact arithmetic) changes no whale profile, no counter
\* and no statistic, and neither displays nor enqueues a notification.
C15_SubThresholdChangesNothing ==
  [][LET Dec(str) == ParseFrom(str, 1, <<>>, -1)
         AtLeast(p, z, n) ==
           ~NatLess(NatMul(p.n, z.n),
                    NatMul(NatOfInt(n), NatOfInt(Pow10(p.k + z.k))))
         Unit == [n |-> NatOfInt(1), k |-> 0]
         SubTrade(t) ==
           /\ ~AtLeast(Dec(t.px), Dec(t.sz), 100000)
           /\ ~AtLeast(Unit, Dec(t.sz), 50)
         SubLevels(levels) ==
           \A i \in 1..Len(levels) :
             /\ levels[i].px # Undefined
             /\ levels[i].sz # Undefined
             /\ ~AtLeast(Dec(levels[i].px), Dec(levels[i].sz), 100000)
         SubTransfer(ix) ==
           \E l \in LamportSamples :
             /\ ix = TransferIx(l)
             /\ NatLess(NatOfBytesLE(l),
                        NatMul(NatOfInt(100), NatOfInt(1000000000)))
         TrackerUntouched ==
           UNCHANGED <<whaleAddresses, tradeCount, attributed, consoleAlerts,
                       pendingAlerts, telegramQueue, nextMsg, sinkSends,
                       isSendingTelegram, consumer>>
     IN /\ (/\ feedCount' = feedCount + 1
            /\ lastFeed'.channel = "trades"
            /\ \A i \in 1..Len(lastFeed'.trades) :
                 SubTrade(lastFeed'.trades[i].trade)) => TrackerUntouched
        /\ (/\ feedCount' = feedCount + 1
            /\ lastFeed'.channel = "l2Book"
            /\ lastFeed'.book.book.levels
            /\ SubLevels(lastFeed'.book.book.bids)
            /\ SubLevels(lastFeed'.book.book.asks)) => TrackerUntouched
        /\ (/\ xHandled' = xHandled + 1
            /\ xMsg'.kind = "transaction"
            /\ xMsg'.instructions # <<>>
            /\ \A i \in 1..Len(xMsg'.instructions) :
                 SubTransfer(xMsg'.instructions[i])) =>
             /\ xShown' = <<>>
             /\ UNCHANGED <<totalTransfers, totalVolume, largestTransfer,
                            largestTransferTx>>
    ]_vars

\* C15 witness: the ETH trade worth 99999.6 USD has been handled, and there
\* is no whale profile, no counted trade and no alert.
C15_Witness ==
  /\ lastFeed.channel = "trades"
  /\ Len(lastFeed.trades) = 1
  /\ lastFeed.trades[1].trade = EthBelowThreshold
  /\ tradeCount = 0
  /\ DOMAIN whaleAddresses = {}
  /\ consoleAlerts = <<>>
  /\ telegramQueue = <<>>

\* C17: no step of any script, the disconnects, reconnects and restarts
\* included, decreases a statistics counter (totalMints, totalLogsReceived,
\* the two migration counts, totalTransfers, totalVolume, largestTransfer,
\* the tracker's tradeCount, and the totalVolume and tradeCount of every
\* whale profile), and no whale profile is removed.
C17_CountersNeverDecrease ==
  [][/\ mTotalMints' >= mTotalMints
     /\ totalLogsReceived' >= totalLogsReceived
     /\ raydiumMigrationCount' >= raydiumMigrationCount
     /\ pumpswapMigrationCount' >= pumpswapMigrationCount
     /\ Len(migrations') >= Len(migrations)
     /\ totalTransfers' >= totalTransfers
     /\ ~DoubleLess(totalVolume', totalVolume)
     /\ ~DoubleLess(largestTransfer', largestTransfer)
     /\ tradeCount' >= tradeCount
     /\ DOMAIN whaleAddresses \subseteq DOMAIN whaleAddresses'
     /\ \A a \in DOMAIN whaleAddresses :
          /\ whaleAddresses'[a].tradeCount >= whaleAddresses[a].tradeCount
          /\ ~DoubleLess(whaleAddresses'[a].totalVolume,
                         whaleAddresses[a].totalVolume)
    ]_vars

\* C17 witness: after a disconnect and the reconnection that followed it
\* (no reconnect timer is pending, the attempts counter is positive), the
\* Hyperliquid feed is open, and the address 0xaaaa has a profile with two
\* whale trades.
C17_Witness ==
  /\ tAttempts >= 1
  /\ tTimers = <<>>
  /\ \E s \in Slots : tSock["hyperliquid"][s] = "open"
  /\ "0xaaaa" \in DOMAIN whaleAddresses
  /\ whaleAddresses["0xaaaa"].tradeCount = 2
  /\ tradeCount = 2

\* C21: notification delivery does not affect event detection.  A step of the
\* queue consumer (a send that fails, is answered or is rate limited, a wait
\* that ends) changes nothing of the tracker's analysis or connections; the
\* handler's sendTelegramMessage never has to wait for the consumer (either
\* one is running and the message is only pushed, or a new one can start);
\* and handling a feed message counts the whale trades of the message,
\* displays its alerts and puts each alert on the queue (or hands it to the
\* consumer started by the call), whatever the consumer is doing.
C21_DeliveryDoesNotAffectDetection ==
  [][LET Whale(t) == \/ DoubleGeq(t.value, WHALE_THRESHOLD_USD)
                     \/ DoubleGeq(t.size, WHALE_THRESHOLD_SIZE)
         trades == lastFeed'.trades
         counted == Cardinality({i \in 1..Len(trades) : Whale(trades[i])})
         walls == IF /\ lastFeed'.channel = "l2Book"
                     /\ lastFeed'.book.book.levels
                     /\ ~lastFeed'.book.threw
                     /\ Len(lastFeed'.book.largeOrders) > 0
                  THEN 1 ELSE 0
         Queued(m) == \/ \E i \in 1..Len(telegramQueue') : telegramQueue'[i] = m
                      \/ \E c \in Consumers : consumer'[c].msg = m
     IN /\ (feedCount' = feedCount /\ consumer' # consumer) =>
             UNCHANGED <<tradeVars, trackerConnVars>>
        /\ (isSendingTelegram \/ \E c \in Consumers : consumer[c].pc = "done")
        /\ (feedCount' = feedCount + 1) =>
             /\ tradeCount' = tradeCount + counted
             /\ Len(consoleAlerts') = Len(consoleAlerts) + counted + walls
             /\ nextMsg' = nextMsg + counted + walls
             /\ \A m \in nextMsg..(nextMsg' - 1) : Queued(m)
    ]_vars

\* C21 witness: the second whale trade was counted and its alert queued while
\* the consumer sleeps on the rate limit of the first alert.
C21_Witness ==
  /\ tradeCount = 2
  /\ telegramQueue = <<2>>
  /\ \E c \in Consumers : consumer[c].pc = "ratelimit" /\ consumer[c].msg = 1

\* C22: the notification queue is a single-consumer FIFO.  At most one
\* processTelegramQueue invocation is live and at most one send is in flight;
\* the queue holds its messages in the order they were enqueued, behind
\* every message already handed to the sink except a rate-limited one put
\* back; and the messages reach the sink in the order they were enqueued, a
\* retried message before the messages enqueued after it.
C22_SingleConsumerFifo ==
  /\ Cardinality({c \in Consumers : consumer[c].pc # "done"}) <= 1
  /\ Cardinality({c \in Consumers : consumer[c].pc = "fetch"}) <= 1
  /\ \A i, j \in 1..Len(telegramQueue) :
       i < j => telegramQueue[i] < telegramQueue[j]
  /\ \A i, j \in 1..Len(sinkSends) : i < j => sinkSends[i] <= sinkSends[j]
  /\ \A i \in 1..Len(telegramQueue), j \in 1..Len(sinkSends) :
       sinkSends[j] <= telegramQueue[i]

\* C22 witness: the first message was rate limited and sent again, and only
\* then the second, which was enqueued during the sleep or before.
C22_Witness ==
  /\ Len(sinkSends) = 3
  /\ sinkSends = <<1, 1, 2>>
  /\ sinkResults[1] = "429"
  /\ telegramQueue = <<3>>

\* C23: within one connection the messages are classified in arrival order,
\* each within the step of its own handler.  The migration listener numbers
\* a log notification and decides on its fetch in the step that receives it,
\* the fetch being the latest issued, and no other step classifies; a data
\* step of a gRPC monitor emits the events of its own message only, in
\* instruction order, numbered after all events of the earlier messages, and
\* no other step emits an event.
C23_ClassifiedInArrivalOrder ==
  [][LET InOrderOf(shown, signature) ==
           /\ \A i \in 1..Len(shown) : shown[i].signature = signature
           /\ \A i, j \in 1..Len(shown) :
                i < j => shown[i].index < shown[j].index
     IN /\ IF totalLogsReceived' # totalLogsReceived
           THEN /\ totalLogsReceived' = totalLogsReceived + 1
                /\ \/ fetchesIssued' = fetchesIssued
                   \/ fetchesIssued' =
                        Append(fetchesIssued, lastLog'.signature)
           ELSE fetchesIssued' = fetchesIssued /\ lastLog' = lastLog
        /\ IF xMsg' # xMsg \/ xHandled' # xHandled
           THEN /\ xHandled' = xHandled + 1
                /\ totalTransfers' = totalTransfers + Len(xShown')
                /\ xShown' # <<>> => InOrderOf(xShown', xMsg'.signature)
           ELSE totalTransfers' = totalTransfers /\ xShown' = xShown
        /\ (mTotalMints' # mTotalMints \/ mShown' # mShown) =>
             /\ mTotalMints' = mTotalMints + Len(mShown')
             /\ mShown' # <<>> => InOrderOf(mShown', mMsg'.signature)
    ]_vars

\* C23 witness: the transfer monitor has displayed the transfer of its first
\* message and then the two transfers of its second message.
C23_Witness ==
  /\ xHandled = 2
  /\ Len(xShown) = 2
  /\ totalTransfers = 3
  /\ xShown[1].index = 0
  /\ xShown[2].index = 1

\* C24: each feed of the whale tracker has its own reconnect state.  With
\* both feeds configured, a step that closes, opens or reconnects the socket
\* of one feed and leaves the sockets of the other feed alone does not change
\* the attempt counter that decides the other feed's next delay and remaining
\* budget.
C24_FeedsHaveOwnReconnectState ==
  [][\A f, g \in Feeds :
       (/\ f # g
        /\ hyperevmConfigured
        /\ tSock'[f] # tSock[f]
        /\ tSock'[g] = tSock[g]) => tAttempts' = tAttempts
    ]_vars

\* C25: a decodeString call at an offset where fewer than 4 + L bytes remain,
\* L being the length read at the offset, throws instead of returning a
\* shortened string, and a create payload with such a string gives no parsed
\* metadata and no displayed mint.
C25_TruncatedStringFails ==
  \A k \in 1..Len(dCalls) :
    LET length == readUInt32LE(dInstruction.data, dCalls[k].offset)
    IN (/\ length.tag = "ok"
        /\ Len(dInstruction.data) - dCalls[k].offset < 4 + length.value)
         => /\ dCalls[k].result.tag = "throw"
            /\ dParsed = Null
            /\ dEvent.tag # "mint"

\* C26: for an instruction of the Pump.fun program the discriminator match
\* never throws, is false for every payload shorter than 8 bytes, and for a
\* payload of at least 8 bytes is true exactly when each of the first 8
\* bytes equals the byte of the create discriminator at its position.
C26_DiscriminatorMatch ==
  LET data == dInstruction.data
      program == Bs58Encode(At0(MintAccountKeys, dInstruction.programIdIndex))
  IN (/\ dIsCreate # "none"
      /\ program.tag = "ok"
      /\ program.value = PUMPFUN_PROGRAM)
       => /\ dIsCreate \in {"true", "false"}
          /\ Len(data) < 8 => dIsCreate = "false"
          /\ Len(data) >= 8 =>
               (dIsCreate = "true"
                  <=> \A k \in 1..8 : data[k] = CREATE_DISCRIMINATOR[k])

\* a payload of the first 7 bytes of the discriminator has been refused
C26_Witness ==
  /\ dIsCreate = "false"
  /\ dPc = "skipped"
  /\ dInstruction.programIdIndex = 1
  /\ dInstruction.data = SubSeq(CREATE_DISCRIMINATOR, 1, 7)

C28_DecodeRoundTrip ==
  \A k \in 1..Len(dCalls) :
    LET data == dInstruction.data
        offset == dCalls[k].offset
        length == readUInt32LE(data, offset)
        result == dCalls[k].result
    IN (/\ length.tag = "ok"
        /\ offset + 4 + length.value <= Len(data)
        /\ ValidUtf8From(SubSeq(data, offset + 5,
                                 offset + 4 + length.value), 1))
         => /\ result.tag = "ok"
            /\ result.bytesRead = 4 + length.value
            /\ UInt32LE(Len(StringToUtf8(result.value)))
                 \o StringToUtf8(result.value)
                 = SubSeq(data, offset + 1, offset + 4 + length.value)

\* the name of a create payload was the two bytes of U+00E9 and was decoded
\* to that one character, 6 bytes read, and the symbol the 4 bytes of U+1F600
C28_Witness ==
  /\ dPc = "displayed"
  /\ SubSeq(dInstruction.data, 9, 14) = <<2, 0, 0, 0, 195, 169>>
  /\ dCalls[1].result.value = <<233>>
  /\ dCalls[1].result.bytesRead = 6
  /\ dCalls[2].offset = 14
  /\ dCalls[2].result.value = <<128512>>
  /\ dCalls[2].result.bytesRead = 8

C30_FailedFetchIsSkipped ==
  [][/\ (/\ totalLogsReceived' = totalLogsReceived
         /\ pendingFetches' # pendingFetches
         /\ lastFetch'.outcome \in {"notFound", "throws"})
          => /\ migrations' = migrations
             /\ raydiumMigrationCount' = raydiumMigrationCount
             /\ pumpswapMigrationCount' = pumpswapMigrationCount
             /\ pendingFetches' =
                  [pendingFetches EXCEPT ![lastFetch'.signature] = @ - 1]
             /\ listenerConnVars' = listenerConnVars
             /\ subscriptionId' = subscriptionId
             /\ lExit' = "running"
     /\ (/\ totalLogsReceived' # totalLogsReceived
         /\ lastFetch.signature # "none"
         /\ lastFetch.outcome \in {"notFound", "throws"})
          => /\ totalLogsReceived' = totalLogsReceived + 1
             /\ lastFetch' = lastFetch]_vars

\* two migration logs have been handled, the fetch of the first has thrown,
\* nothing is recorded, the fetch of the second is pending and the socket is
\* still connected
C30_Witness ==
  /\ lastFetch.signature = "sigRaydium"
  /\ lastFetch.outcome = "throws"
  /\ fetchesIssued = <<"sigRaydium", "sigPumpswap">>
  /\ pendingFetches["sigRaydium"] = 0
  /\ pendingFetches["sigPumpswap"] = 1
  /\ migrations = <<>>
  /\ raydiumMigrationCount = 0
  /\ totalLogsReceived = 2
  /\ lIsConnected
  /\ lExit = "running"

\* C31: when an order-book update with a levels array is handled, the levels
\* that are read as price and size (an array, or an object with px and sz)
\* and whose price times size is at least the USD threshold are notified in
\* one order-wall alert, bids before asks and each side in book order, and
\* no alert is raised when there is none; every other level is passed over.
C31_WallIffQualifyingLevel ==
  [][(/\ feedCount' = feedCount + 1
      /\ lastFeed'.channel = "l2Book"
      /\ lastFeed'.book.book.levels)
       => LET book == lastFeed'.book.book
              Qualifies(level) ==
                /\ \/ level.form = "array"
                   \/ /\ level.form = "object"
                      /\ level.px # Undefined
                      /\ level.sz # Undefined
                /\ DoubleGeq(DoubleMul(parseFloat(level.px),
                                       parseFloat(level.sz)),
                             WHALE_THRESHOLD_USD)
              Listed(side, levels) ==
                LET q == SelectSeq(levels, Qualifies)
                IN [i \in 1..Len(q) |->
                      [side |-> side, px |-> q[i].px, sz |-> q[i].sz]]
              expected == Listed("BID", book.bids) \o Listed("ASK", book.asks)
          IN IF expected # <<>>
             THEN consoleAlerts' =
                    Append(consoleAlerts,
                           [kind |-> "order", coin |-> book.coin,
                            n |-> Len(expected), orders |-> expected])
             ELSE consoleAlerts' = consoleAlerts]_vars

\* C32: whenever the queue is non-empty isSendingTelegram is true; every
\* message enqueued is eventually neither in the queue nor held by a call of
\* processTelegramQueue (it was sent or dropped); and the tracker is again
\* and again idle with the queue empty and isSendingTelegram false.
C32_NoNotificationStranded ==
  /\ [](telegramQueue # <<>> => isSendingTelegram)
  /\ \A m \in 1..MaxMsgs :
       (m < nextMsg) ~>
         (/\ \A i \in 1..Len(telegramQueue) : telegramQueue[i] # m
          /\ \A c \in Consumers : consumer[c].msg # m)
  /\ []<>(telegramQueue = <<>> /\ ~isSendingTelegram)

\* all messages have been enqueued, one was answered with a 429 and sent
\* again, and the queue is empty and idle
C32_Witness ==
  /\ nextMsg = MaxMsgs + 1
  /\ RateLimitsSoFar = 1
  /\ Len(sinkSends) = MaxMsgs + 1
  /\ telegramQueue = <<>>
  /\ ~isSendingTelegram
  /\ \A c \in Consumers : consumer[c].pc = "done"

\* C33: for the listener and for each feed of the tracker, the sockets that
\* are connecting or open and the pending reconnect timers of the source
\* are together at most one; a step adds at most one timer per source; and
\* a socket is only created for a source that has none connecting or open.
C33_OneConnectionPerSource ==
  [][LET TimersOf(timers, f) ==
           Cardinality({i \in 1..Len(timers) : timers[i].connection = f})
         AtMostOne(lsocks, ltimers, tsocks, ttimers) ==
           /\ Cardinality(Live(lsocks)) + Len(ltimers) <= 1
           /\ \A f \in Feeds :
                Cardinality(Live(tsocks[f])) + TimersOf(ttimers, f) <= 1
     IN /\ AtMostOne(lSock, lTimers, tSock, tTimers)
        /\ AtMostOne(lSock', lTimers', tSock', tTimers')
        /\ Len(lTimers') <= Len(lTimers) + 1
        /\ \A f \in Feeds :
             TimersOf(tTimers', f) <= TimersOf(tTimers, f) + 1
        /\ ~(Live(lSock') \subseteq Live(lSock)) => Live(lSock) = {}
        /\ \A f \in Feeds :
             ~(Live(tSock'[f]) \subseteq Live(tSock[f]))
               => Live(tSock[f]) = {}]_vars

\* the listener's socket has closed for the second time and one reconnect
\* timer is pending, while the tracker's Info feed is open and its HyperEVM
\* feed waits for its reconnect
C33_Witness ==
  /\ lAttempts = 2
  /\ Len(lTimers) = 1
  /\ Live(lSock) = {}
  /\ Cardinality(Live(tSock["hyperliquid"])) = 1
  /\ Live(tSock["hyperevm"]) = {}
  /\ Len(tTimers) = 1
  /\ tTimers[1].connection = "hyperevm"

\* C34: every mint the monitor has displayed carries a defined mint, bonding
\* curve and creator address, so a create instruction that lists fewer than 8
\* accounts displays nothing.
C34_MintsCarryDefinedAccounts ==
  \A k \in 1..Len(mShown) :
    /\ mShown[k].mint # Undefined
    /\ mShown[k].bondingCurve # Undefined
    /\ mShown[k].creator # Undefined
    /\ Len(mMsg.instructions[mShown[k].index + 1].accounts) >= 8

\* C35: a step in which a fetch returns a transaction records at most one
\* migration.  With i the first instruction of the transaction whose program
\* is Raydium with at least 7 accounts or whose program is Pump.fun, the
\* migration recorded is the one of instruction i: of type raydium with the
\* pool, token, quote mint and LP mint that are accounts 1, 5, 6 and 4 of i,
\* or of type pumpswap; no other instruction yields a migration, a Raydium
\* instruction with fewer than 7 accounts before i does not end the search,
\* and without such an instruction nothing is recorded.
C35_FirstMigrationInstruction ==
  [][(/\ totalLogsReceived' = totalLogsReceived
      /\ pendingFetches' # pendingFetches
      /\ lastFetch'.outcome = "transaction")
       => LET signature == lastFetch'.signature
              tx == ChainTx(signature)
              Program(i) ==
                At0(tx.accountKeys, tx.instructions[i].programIdIndex)
              Accounts(i) == tx.instructions[i].accounts
              Account(i, pos) == At0(tx.accountKeys, Accounts(i)[pos + 1])
              Matching ==
                {i \in 1..Len(tx.instructions) :
                   \/ Program(i) = RAYDIUM_PROGRAM /\ Len(Accounts(i)) >= 7
                   \/ Program(i) = PUMPFUN_PROGRAM}
              first == CHOOSE i \in Matching : \A j \in Matching : i <= j
              new == migrations'[Len(migrations')]
          IN /\ \/ migrations' = migrations
                \/ /\ Len(migrations') = Len(migrations) + 1
                   /\ SubSeq(migrations', 1, Len(migrations)) = migrations
             /\ Matching = {} => migrations' = migrations
             /\ migrations' # migrations =>
                  /\ new.signature = signature
                  /\ new.slot = tx.slot
                  /\ new.blockTime = tx.blockTime
                  /\ IF Program(first) = RAYDIUM_PROGRAM
                     THEN /\ new.type = "raydium"
                          /\ new.poolAddress = Account(first, 1)
                          /\ new.tokenAddress = Account(first, 5)
                          /\ new.quoteMint = Account(first, 6)
                          /\ new.lpMint = Account(first, 4)
                     ELSE /\ new.type = "pumpswap"
                          /\ new.destination = "PumpSwap"
             /\ (/\ Matching # {}
                 /\ \/ Program(first) = PUMPFUN_PROGRAM
                    \/ \A pos \in {1, 5, 6, 4} :
                         Account(first, pos) # Undefined)
                  => migrations' # migrations]_vars

\* the transaction whose first instruction is a Raydium instruction with 3
\* accounts and whose second is a Pump.fun instruction has been fetched and
\* recorded as a PumpSwap migration
C35_Witness ==
  /\ lastFetch.signature = "sigRaydiumFew"
  /\ lastFetch.outcome = "transaction"
  /\ Len(migrations) = 1
  /\ migrations[1].type = "pumpswap"
  /\ migrations[1].signature = "sigRaydiumFew"
  /\ pumpswapMigrationCount = 1

\* C36: the recorded migrations are as many as the two migration counts
\* together, each is of type raydium or pumpswap and each count is the
\* number of migrations of its type; and the recorded migrations together
\* with the fetches still pending are no more than the successful migration
\* logs handled, which are no more than the logs received.
C36_MigrationCounts ==
  LET OfType(type) ==
        Cardinality({k \in 1..Len(migrations) : migrations[k].type = type})
      RECURSIVE Pending(_)
      Pending(sigs) ==
        IF sigs = {} THEN 0
        ELSE LET sig == CHOOSE x \in sigs : TRUE
             IN pendingFetches[sig] + Pending(sigs \ {sig})
  IN /\ Len(migrations) = raydiumMigrationCount + pumpswapMigrationCount
     /\ \A k \in 1..Len(migrations) :
          migrations[k].type \in {"raydium", "pumpswap"}
     /\ raydiumMigrationCount = OfType("raydium")
     /\ pumpswapMigrationCount = OfType("pumpswap")
     /\ Len(migrations) + Pending(Signatures) <= Len(fetchesIssued)
     /\ Len(fetchesIssued) <= totalLogsReceived

\* two logs have been received: the first was fetched and recorded as a
\* Raydium migration, the second is of a failed transaction with a migration
\* in its logs and was not fetched
C36_Witness ==
  /\ totalLogsReceived = 2
  /\ lastLog.signature # "none"
  /\ lastLog.err
  /\ lastLog.matches
  /\ fetchesIssued = <<"sigRaydium">>
  /\ Len(migrations) = 1
  /\ migrations[1].type = "raydium"
  /\ raydiumMigrationCount = 1
  /\ pumpswapMigrationCount = 0

\* the lamports of an amount or total d, a number that is a natural
LamportsOf(d) ==
  IF d.e >= 0 THEN NatShiftLeft(d.m, d.e) ELSE NatShiftRight(d.m, 0 - d.e)

RECURSIVE LamportsSum(_, _)
\* the lamports of the first k transfers of shown together
LamportsSum(shown, k) ==
  IF k = 0 THEN <<>>
  ELSE NatAdd(LamportsSum(shown, k - 1), LamportsOf(shown[k].amount))

RECURSIVE RoundedSum(_, _, _)
\* the total after the first k transfers of shown when each addition is
\* rounded to the nearest number
RoundedSum(total, shown, k) ==
  IF k = 0 THEN total
  ELSE RoundToDouble(NatAdd(LamportsOf(RoundedSum(total, shown, k - 1)),
                            LamportsOf(shown[k].amount)), FALSE, 0)

\* what a handled message does to the count, the largest transfer and its
\* signature: the count grows by the transfers displayed, the largest
\* transfer is the maximum of the former one and their amounts, its
\* signature changes only when the maximum grows, to that of the first
\* transfer attaining it, and is null exactly while the count is 0; the
\* largest transfer is at most the total volume
StatsFollowTransfers ==
  LET shown == xShown'
      Attains(k) == shown[k].amount = largestTransfer'
      attaining == {k \in 1..Len(shown) : Attains(k)}
  IN /\ totalTransfers' = totalTransfers + Len(shown)
     /\ ~DoubleLess(largestTransfer', largestTransfer)
     /\ \A k \in 1..Len(shown) :
          ~DoubleLess(largestTransfer', shown[k].amount)
     /\ largestTransfer' = largestTransfer \/ attaining # {}
     /\ IF DoubleLess(largestTransfer, largestTransfer')
        THEN largestTransferTx' =
               shown[CHOOSE k \in attaining :
                       \A j \in attaining : k <= j].signature
        ELSE largestTransferTx' = largestTransferTx
     /\ (largestTransferTx' = NoSignature) <=> (totalTransfers' = 0)
     /\ (largestTransfer' = Zero) <=> (totalTransfers' = 0)
     /\ ~DoubleLess(totalVolume', largestTransfer')

\* C37 as stated: after every handled message the count is the number of
\* the transfers displayed so far, the total volume is the sum of their
\* amounts, the largest transfer is the maximum of their amounts and at most
\* the total volume, and its signature is that of the earliest transfer
\* attaining the maximum, null exactly when nothing has been counted.
C37_VolumeIsExactSum ==
  [][xHandled' = xHandled + 1
      => /\ StatsFollowTransfers
         /\ LamportsOf(totalVolume') =
              NatAdd(LamportsOf(totalVolume),
                     LamportsSum(xShown', Len(xShown')))]_vars

\* C37: after every handled message the count, the largest transfer and its
\* signature are as stated; the total volume is the amounts added one by one
\* in the order displayed, each addition rounded to the nearest number, and
\* it is the sum of the amounts as long as that sum is below 2^53 lamports.
C37_StatsOfTransfers ==
  [][xHandled' = xHandled + 1
      => LET sum == NatAdd(LamportsOf(totalVolume),
                           LamportsSum(xShown', Len(xShown')))
         IN /\ StatsFollowTransfers
            /\ totalVolume' = RoundedSum(totalVolume, xShown', Len(xShown'))
            /\ (NatBitLen(LamportsOf(totalVolume)) <= MantissaBits
                 /\ NatBitLen(sum) <= MantissaBits)
                 => LamportsOf(totalVolume') = sum]_vars

\* a transfer of 250 SOL of one transaction and then transfers of 250 and of
\* 100 SOL of another have been counted: 600 SOL in three transfers, the
\* largest being the first one
C37_Witness ==
  /\ totalTransfers = 3
  /\ xMsg.kind = "transaction"
  /\ xMsg.signature = "signature2"
  /\ Len(xShown) = 2
  /\ largestTransferTx = "signature1"
  /\ largestTransfer = NumberOfBigInt(NatOfBytesLE(Lamports250Sol))
  /\ LamportsOf(totalVolume) =
       NatMulLimb(NatOfBytesLE(Lamports100Sol), 6)

====
